---------------------------- MODULE Spec2Model ----------------------------
(***************************************************************************)
(* PhishRx: the scam-risk scoring pipeline of components/scam_classifier.py *)
(* (ScamClassifier.analyze_scam_risk and its helpers), with the two finding *)
(* scanners it sits beside (utils.find_suspicious_text and                  *)
(* privacy_detector.analyze_text_privacy).                                  *)
(*                                                                          *)
(* A text is a sequence of one-character strings.  Real numbers are kept    *)
(* exactly as integers over a common denominator: a score s is the integer  *)
(* s * One, a classifier confidence c is the integer c * ConfSteps.         *)
(***************************************************************************)
EXTENDS Integers, Sequences, FiniteSets, TLC

\* ------------------------------------------------------------------ bounds

\* Texts are built from at most MaxFrags fragments of Fragments.
MaxFrags == 2

\* Confidences are the multiples of 1/ConfSteps in [0,1].
ConfSteps == 10

\* Largest count a feature takes in the specification of the pure scoring
\* functions (ScoreSpec); the code's cap on a count is 3.
MaxCount == 4

\* AI requests started in one window are at most MaxAsks.
MaxAsks == 3

\* Records in the scan history file are at most MaxRecords.
MaxRecords == 3

\* ------------------------------------------------------- characters, text

Whitespace == {" ", "\t", "\n", "\r"}

UpperCase ==
  <<"A", "B", "C", "D", "E", "F", "G", "H", "I", "J", "K", "L", "M",
    "N", "O", "P", "Q", "R", "S", "T", "U", "V", "W", "X", "Y", "Z">>

LowerCase ==
  <<"a", "b", "c", "d", "e", "f", "g", "h", "i", "j", "k", "l", "m",
    "n", "o", "p", "q", "r", "s", "t", "u", "v", "w", "x", "y", "z">>

\* str.lower() on one character.
lower_char(c) ==
  IF \E i \in DOMAIN UpperCase : UpperCase[i] = c
  THEN LowerCase[CHOOSE i \in DOMAIN UpperCase : UpperCase[i] = c]
  ELSE c

\* str.lower()
lower(text) == [i \in DOMAIN text |-> lower_char(text[i])]

\* str.strip(): leading and trailing whitespace removed.
strip(text) ==
  LET keep == {i \in DOMAIN text : text[i] \notin Whitespace}
  IN IF keep = {} THEN <<>>
     ELSE LET first == CHOOSE i \in keep : \A j \in keep : i <= j
              last  == CHOOSE i \in keep : \A j \in keep : j <= i
          IN SubSeq(text, first, last)

\* term occurs at position i of text
starts_at(term, text, i) ==
  /\ i >= 1
  /\ i + Len(term) - 1 <= Len(text)
  /\ \A k \in DOMAIN term : text[i + k - 1] = term[k]

\* Python's `term in text` on strings.
contains(term, text) ==
  \E i \in 1..(Len(text) - Len(term) + 1) : starts_at(term, text, i)

\* Sum of f[x] over the finite set S.
RECURSIVE sum_over(_, _)
sum_over(f, S) ==
  IF S = {} THEN 0
  ELSE LET x == CHOOSE y \in S : TRUE IN f[x] + sum_over(f, S \ {x})

Min(a, b) == IF a <= b THEN a ELSE b

\* ------------------------------------------------- Shannon entropy (base 2)

\* Entropies are kept in units of 1/EntropyScale bit.
EntropyScale == 2^10

LogPrecision == 2^14

\* floor(log2(n)) for n >= 1
RECURSIVE ilog2(_)
ilog2(n) == IF n < 2 THEN 0 ELSE 1 + ilog2(n \div 2)

\* The fractional bits of log2(y / LogPrecision), y / LogPrecision in [1,2),
\* by repeated squaring: `bit` is the weight of the next bit.
RECURSIVE log2_frac(_, _)
log2_frac(y, bit) ==
  IF bit = 0 THEN 0
  ELSE LET sq == (y * y) \div LogPrecision
       IN IF sq >= 2 * LogPrecision
          THEN bit + log2_frac(sq \div 2, bit \div 2)
          ELSE log2_frac(sq, bit \div 2)

\* np.log2(n) for an integer n >= 1, rounded down to 1/EntropyScale.
log2_fixed(n) ==
  LET e == ilog2(n)
  IN e * EntropyScale + log2_frac((n * LogPrecision) \div (2^e), EntropyScale \div 2)

\* collections.Counter(text)
Counter(text) ==
  [c \in {text[i] : i \in DOMAIN text} |->
     Cardinality({i \in DOMAIN text : text[i] = c})]

\* -sum((count/len) * log2(count/len)), with log2(count/len) taken as
\* log2(count) - log2(len).
_calculate_entropy(text) ==
  IF Len(text) = 0 THEN 0
  ELSE LET counts == Counter(text)
           n == Len(text)
           term == [c \in DOMAIN counts |->
                      (counts[c] * (log2_fixed(n) - log2_fixed(counts[c]))) \div n]
       IN sum_over(term, DOMAIN counts)

\* ---------------------------------------------------- feature extraction

urgency_terms ==
  { <<"u", "r", "g", "e", "n", "t">>,
    <<"i", "m", "m", "e", "d", "i", "a", "t", "e", "l", "y">>,
    <<"a", "s", "a", "p">>,
    <<"a", "c", "t", "i", "o", "n", " ", "r", "e", "q", "u", "i", "r", "e", "d">>,
    <<"v", "e", "r", "i", "f", "y", " ", "n", "o", "w">> }

suspicious_domains ==
  { <<"b", "i", "t", ".", "l", "y">>,
    <<"t", "i", "n", "y", "u", "r", "l">>,
    <<"c", "l", "i", "c", "k", "-", "h", "e", "r", "e">>,
    <<"v", "e", "r", "i", "f", "y", "-", "a", "c", "c", "o", "u", "n", "t">> }

password_terms ==
  { <<"p", "a", "s", "s", "w", "o", "r", "d">>,
    <<"l", "o", "g", "i", "n">>,
    <<"c", "r", "e", "d", "e", "n", "t", "i", "a", "l", "s">>,
    <<"a", "c", "c", "o", "u", "n", "t", " ", "v", "e", "r", "i", "f", "i", "c", "a", "t", "i", "o", "n">> }

financial_terms ==
  { <<"p", "a", "y", "p", "a", "l">>,
    <<"b", "a", "n", "k">>,
    <<"c", "r", "e", "d", "i", "t", " ", "c", "a", "r", "d">>,
    <<"s", "s", "n">>,
    <<"s", "o", "c", "i", "a", "l", " ", "s", "e", "c", "u", "r", "i", "t", "y">> }

greetings ==
  { <<"d", "e", "a", "r", " ", "u", "s", "e", "r">>,
    <<"d", "e", "a", "r", " ", "c", "u", "s", "t", "o", "m", "e", "r">>,
    <<"v", "a", "l", "u", "e", "d", " ", "m", "e", "m", "b", "e", "r">> }

popup_terms ==
  { <<"p", "o", "p", "u", "p">>,
    <<"m", "o", "d", "a", "l">>,
    <<"o", "v", "e", "r", "l", "a", "y">>,
    <<"d", "i", "a", "l", "o", "g">>,
    <<"w", "i", "n", "d", "o", "w">>,
    <<"a", "l", "e", "r", "t">>,
    <<"n", "o", "t", "i", "f", "i", "c", "a", "t", "i", "o", "n">> }

\* sum(1 for term in urgency_terms if term in text)
_count_urgency_indicators(text) ==
  Cardinality({term \in urgency_terms : contains(term, text)})

\* Length of the `https?://` prefix at position i of text, 0 if there is none.
scheme_len(text, i) ==
  IF starts_at(<<"h", "t", "t", "p", ":", "/", "/">>, text, i) THEN 7
  ELSE IF starts_at(<<"h", "t", "t", "p", "s", ":", "/", "/">>, text, i) THEN 8
  ELSE 0

\* First position >= i of text holding a whitespace character (Len(text) + 1
\* if there is none): where a run of [^\s] starting at i ends.
RECURSIVE run_end(_, _)
run_end(text, i) ==
  IF i > Len(text) \/ text[i] \in Whitespace THEN i ELSE run_end(text, i + 1)

\* Where the match of r'https?://[^\s]+' at position i of text ends; 0 if there
\* is none.
url_end(text, i) ==
  LET p == scheme_len(text, i)
      e == run_end(text, i + p)
  IN IF p > 0 /\ e > i + p THEN e ELSE 0

\* re.findall(r'https?://[^\s]+', text) scanning from position i: leftmost,
\* non-overlapping, greedy matches, in order.
RECURSIVE findall_urls(_, _)
findall_urls(text, i) ==
  LET starts == {p \in i..Len(text) : url_end(text, p) > 0}
  IN IF starts = {} THEN <<>>
     ELSE LET s == CHOOSE p \in starts : \A q \in starts : p <= q
          IN <<SubSeq(text, s, url_end(text, s) - 1)>>
             \o findall_urls(text, url_end(text, s))

\* sum(1 for url in urls if any(domain in url for domain in suspicious_domains))
_find_suspicious_urls(text) ==
  LET urls == findall_urls(text, 1)
  IN Cardinality({k \in DOMAIN urls :
                    \E domain \in suspicious_domains : contains(domain, urls[k])})

any_term(terms, text) == IF \E term \in terms : contains(term, text) THEN 1 ELSE 0

_check_password_requests(text) == any_term(password_terms, text)

_check_financial_terms(text) == any_term(financial_terms, text)

_check_generic_greetings(text) == any_term(greetings, text)

_check_popup_keywords(text) == any_term(popup_terms, text)

FeatureNames ==
  {"urgency_words", "suspicious_urls", "password_requests", "financial_terms",
   "generic_greetings", "length", "entropy", "has_popup_keywords"}

\* _extract_features with the length taken after text.strip().
_extract_features_stripped(text) ==
  LET text_lower == lower(text)
  IN [urgency_words      |-> _count_urgency_indicators(text_lower),
      suspicious_urls    |-> _find_suspicious_urls(text_lower),
      password_requests  |-> _check_password_requests(text_lower),
      financial_terms    |-> _check_financial_terms(text_lower),
      generic_greetings  |-> _check_generic_greetings(text_lower),
      length             |-> Len(strip(text)),
      entropy            |-> _calculate_entropy(text),
      has_popup_keywords |-> _check_popup_keywords(text_lower)]

_extract_features(text) ==
  LET text_lower == lower(text)
  IN [urgency_words      |-> _count_urgency_indicators(text_lower),
      suspicious_urls    |-> _find_suspicious_urls(text_lower),
      password_requests  |-> _check_password_requests(text_lower),
      financial_terms    |-> _check_financial_terms(text_lower),
      generic_greetings  |-> _check_generic_greetings(text_lower),
      length             |-> Len(text),
      entropy            |-> _calculate_entropy(text),
      has_popup_keywords |-> _check_popup_keywords(text_lower)]

\* -------------------------------------------------------------- numbers

\* n/100 as a score: scores are integers in units of 1/(300 * ConfSteps), so
\* that a third of a weight and a confidence times a weight are both exact.
Hundredths(n) == n * 3 * ConfSteps

\* The score 1.0.
One == Hundredths(100)

\* dict.get(key, default)
get(d, key, default) == IF key \in DOMAIN d THEN d[key] ELSE default

\* ------------------------------------------------------------ risk score

\* The weight table of _calculate_risk_score, in hundredths, in dict order.
weights ==
  << <<"urgency_words", 10>>, <<"suspicious_urls", 15>>,
     <<"password_requests", 10>>, <<"financial_terms", 5>> >>

\* traditional_score with the count taken modulo 3 in place of the cap.
RECURSIVE traditional_score_wrapped(_, _)
traditional_score_wrapped(features, i) ==
  IF i > Len(weights) THEN 0
  ELSE (IF features[weights[i][1]] > 0
        THEN (Hundredths(weights[i][2]) * (features[weights[i][1]] % 3)) \div 3
        ELSE 0)
       + traditional_score_wrapped(features, i + 1)

\* traditional_score without the cap min(value / 3.0, 1.0) on a count.
RECURSIVE traditional_score_uncapped(_, _)
traditional_score_uncapped(features, i) ==
  IF i > Len(weights) THEN 0
  ELSE (IF features[weights[i][1]] > 0
        THEN (Hundredths(weights[i][2]) * features[weights[i][1]]) \div 3
        ELSE 0)
       + traditional_score_uncapped(features, i + 1)

\* traditional_score with the full weight for any value > 0.
RECURSIVE traditional_score_full_weight(_, _)
traditional_score_full_weight(features, i) ==
  IF i > Len(weights) THEN 0
  ELSE (IF features[weights[i][1]] > 0 THEN Hundredths(weights[i][2]) ELSE 0)
       + traditional_score_full_weight(features, i + 1)

\* The loop `for feature, weight in weights.items()` from entry i on:
\* base_score += weight * min(features[feature] / 3.0, 1.0) if the value is > 0.
RECURSIVE traditional_score(_, _)
traditional_score(features, i) ==
  IF i > Len(weights) THEN 0
  ELSE LET feature == weights[i][1]
           weight  == weights[i][2]
       IN (IF features[feature] > 0
           THEN (Hundredths(weight) * Min(features[feature], 3)) \div 3
           ELSE 0)
          + traditional_score(features, i + 1)

\* The features _calculate_risk_score and _classify_threat subscript: a
\* missing one is a KeyError.
ScoredFeatures ==
  {"urgency_words", "suspicious_urls", "password_requests", "financial_terms",
   "has_popup_keywords"}

\* ml_analysis.get("confidence", 0.0) * 0.6
ml_boost(ml) == (get(ml, "confidence", 0) * Hundredths(60)) \div ConfSteps

\* _calculate_risk_score without the final min(..., 1.0).
_calculate_risk_score_unsaturated(features, ml) ==
  traditional_score(features, 1)
  + (IF features["has_popup_keywords"] # 0 THEN Hundredths(20) ELSE 0)
  + ml_boost(ml)

_calculate_risk_score(features, ml) ==
  LET base_score == traditional_score(features, 1)
                    + (IF features["has_popup_keywords"] # 0 THEN Hundredths(20) ELSE 0)
  IN Min(base_score + ml_boost(ml), One)

\* ------------------------------------------------------ threat classification

\* threat_reasons with the URL check ahead of the urgency check.
threat_reasons_reordered(features, ml) ==
  LET ml_prediction == get(ml, "prediction", "")
  IN (IF ml_prediction \in {"phishing", "urgent", "financial"}
      THEN <<"ml_detected_" \o ml_prediction>> ELSE <<>>)
     \o (IF features["suspicious_urls"] > 0 THEN <<"suspicious_url">> ELSE <<>>)
     \o (IF features["urgency_words"] > 0 THEN <<"urgency_language">> ELSE <<>>)
     \o (IF features["password_requests"] > 0 THEN <<"password_request">> ELSE <<>>)
     \o (IF features["has_popup_keywords"] # 0 THEN <<"suspicious_popup">> ELSE <<>>)

\* threat_reasons with a tag for every label but "safe".
threat_reasons_any_label(features, ml) ==
  LET ml_prediction == get(ml, "prediction", "")
  IN (IF ml_prediction \notin {"safe", ""}
      THEN <<"ml_detected_" \o ml_prediction>> ELSE <<>>)
     \o (IF features["urgency_words"] > 0 THEN <<"urgency_language">> ELSE <<>>)
     \o (IF features["suspicious_urls"] > 0 THEN <<"suspicious_url">> ELSE <<>>)
     \o (IF features["password_requests"] > 0 THEN <<"password_request">> ELSE <<>>)
     \o (IF features["has_popup_keywords"] # 0 THEN <<"suspicious_popup">> ELSE <<>>)

\* The reasons list of _classify_threat.
threat_reasons(features, ml) ==
  LET ml_prediction == get(ml, "prediction", "")
  IN (IF ml_prediction \in {"phishing", "urgent", "financial"}
      THEN <<"ml_detected_" \o ml_prediction>> ELSE <<>>)
     \o (IF features["urgency_words"] > 0 THEN <<"urgency_language">> ELSE <<>>)
     \o (IF features["suspicious_urls"] > 0 THEN <<"suspicious_url">> ELSE <<>>)
     \o (IF features["password_requests"] > 0 THEN <<"password_request">> ELSE <<>>)
     \o (IF features["has_popup_keywords"] # 0 THEN <<"suspicious_popup">> ELSE <<>>)

\* threat_severity with strict comparisons.
threat_severity_strict(ml, score) ==
  LET ml_prediction == get(ml, "prediction", "")
  IN IF score > Hundredths(80) \/ ml_prediction = "phishing" THEN "critical"
     ELSE IF score > Hundredths(60) THEN "high"
     ELSE IF score > Hundredths(40) THEN "medium"
     ELSE "low"

\* The severity of _classify_threat.
threat_severity(ml, score) ==
  LET ml_prediction == get(ml, "prediction", "")
  IN IF score >= Hundredths(80) \/ ml_prediction = "phishing" THEN "critical"
     ELSE IF score >= Hundredths(60) THEN "high"
     ELSE IF score >= Hundredths(40) THEN "medium"
     ELSE "low"

_classify_threat(features, ml, score) ==
  <<threat_severity(ml, score), threat_reasons(features, ml)>>

\* ------------------------------------------------------ classifier adapter

labels == <<"safe", "suspicious", "phishing", "urgent", "financial">>

\* What the tokenizer and the model do with a call: they return logits, whose
\* softmax has its maximum `confidence` at `predicted_class`, or they raise.
\* The largest of len(labels) probabilities is at least 1/len(labels).
BackendOutcomes ==
  {[kind |-> "ok", predicted_class |-> c, confidence |-> k] :
     c \in 0..(Len(labels) - 1),
     k \in {j \in 0..ConfSteps : j * Len(labels) >= ConfSteps}}
  \cup {[kind |-> "raise", predicted_class |-> 0, confidence |-> 0]}

\* ml_try without the `except Exception` handler.
ml_try_uncaught(outcome) ==
  IF outcome.kind = "raise" \/ outcome.predicted_class + 1 \notin DOMAIN labels
  THEN [raised |-> TRUE, value |-> <<>>]
  ELSE [raised |-> FALSE,
        value |-> [confidence |-> outcome.confidence,
                   prediction |-> labels[outcome.predicted_class + 1]]]

\* The try block of _ml_analysis on the backend's outcome, with its
\* `except Exception` handler: `raised` says whether an exception leaves
\* _ml_analysis.
ml_try(outcome) ==
  IF outcome.kind = "raise" \/ outcome.predicted_class + 1 \notin DOMAIN labels
  THEN [raised |-> FALSE, value |-> [confidence |-> 0, prediction |-> "error"]]
  ELSE [raised |-> FALSE,
        value |-> [confidence |-> outcome.confidence,
                   prediction |-> labels[outcome.predicted_class + 1]]]

\* What _ml_analysis returns without a model.
ml_fallback == [confidence |-> 0, prediction |-> "fallback"]

\* ----------------------------------------------------------------- results

\* _empty_result with severity "medium".
_empty_result_medium ==
  [severity |-> "medium", reasons |-> <<>>, confidence |-> 0, risk_score |-> 0,
   features |-> <<>>]

\* ScamClassifier._empty_result()
_empty_result ==
  [severity |-> "low", reasons |-> <<>>, confidence |-> 0, risk_score |-> 0,
   features |-> <<>>]

\* The dict analyze_scam_risk returns for analyzed text.
risk_result(sev, rs, score, ml, feats) ==
  [severity |-> sev, reasons |-> rs, confidence |-> score, risk_score |-> score,
   ml_confidence |-> get(ml, "confidence", 0), features |-> feats]

\* ------------------------------------------------- regular expressions (re)

\* A pattern is a tree.  Chars: one character of (or, with neg, outside) a
\* set; Lit: a string; Cat: a sequence; Alt: alternatives, tried left to
\* right; Rep: a greedy repetition, max = -1 for no upper bound; WordB: \b;
\* Eol: $; NotAhead: (?!...).
Chars(set) == [op |-> "chars", set |-> set, neg |-> FALSE]

NotChars(set) == [op |-> "chars", set |-> set, neg |-> TRUE]

Lit(str) == [op |-> "lit", str |-> str]

Cat(items) == [op |-> "cat", items |-> items]

Alt(items) == [op |-> "alt", items |-> items]

Rep(item, min, max) == [op |-> "rep", item |-> item, min |-> min, max |-> max]

WordB == [op |-> "wordb"]

Eol == [op |-> "eol"]

NotAhead(item) == [op |-> "nla", item |-> item]

Range(s) == {s[i] : i \in DOMAIN s}

Digits == {"0", "1", "2", "3", "4", "5", "6", "7", "8", "9"}

Letters == Range(LowerCase) \cup Range(UpperCase)

\* \w
WordChars == Letters \cup Digits \cup {"_"}

\* str.upper() on one character.
upper_char(c) ==
  IF \E i \in DOMAIN LowerCase : LowerCase[i] = c
  THEN UpperCase[CHOOSE i \in DOMAIN LowerCase : LowerCase[i] = c]
  ELSE c

\* Whether character c is in `set`, with re.IGNORECASE if ignorecase.
in_class(c, set, ignorecase) ==
  \/ c \in set
  \/ ignorecase /\ (lower_char(c) \in set \/ upper_char(c) \in set)

\* Whether text has a word character at position i.
is_word_at(text, i) == i \in DOMAIN text /\ text[i] \in WordChars

\* Whether str matches text at position i, with re.IGNORECASE if ignorecase.
lit_at(str, text, i, ignorecase) ==
  /\ i + Len(str) - 1 <= Len(text)
  /\ \A k \in DOMAIN str :
       \/ text[i + k - 1] = str[k]
       \/ ignorecase /\ lower_char(text[i + k - 1]) = lower_char(str[k])

\* The sequences of `seqs`, concatenated.
RECURSIVE flatten(_)
flatten(seqs) ==
  IF seqs = <<>> THEN <<>> ELSE Head(seqs) \o flatten(Tail(seqs))

\* Whether pattern `re`, a character set, matches the character at position i.
char_at(re, text, i, ignorecase) ==
  i \in DOMAIN text /\ (in_class(text[i], re.set, ignorecase) # re.neg)

\* The first position >= i and <= limit at which the character set `re` does
\* not match: where the longest run of at most limit - i matches ends.
RECURSIVE run_stop(_, _, _, _, _)
run_stop(re, text, i, limit, ignorecase) ==
  IF i >= limit \/ ~char_at(re, text, i, ignorecase) THEN i
  ELSE run_stop(re, text, i + 1, limit, ignorecase)

\* The positions at which a match of pattern `re` that starts at position i
\* of text can end, in the order the backtracking matcher tries them: the
\* first one is where re.match ends.
RECURSIVE ends(_, _, _, _)
RECURSIVE ends_cat(_, _, _, _, _)
RECURSIVE ends_rep(_, _, _, _, _)
ends(re, text, i, ignorecase) ==
  CASE re.op = "chars" ->
         IF char_at(re, text, i, ignorecase) THEN <<i + 1>> ELSE <<>>
    [] re.op = "lit" ->
         IF lit_at(re.str, text, i, ignorecase) THEN <<i + Len(re.str)>> ELSE <<>>
    [] re.op = "cat" -> ends_cat(re.items, 1, text, i, ignorecase)
    [] re.op = "alt" ->
         flatten([k \in DOMAIN re.items |-> ends(re.items[k], text, i, ignorecase)])
    [] re.op = "rep" ->
         IF re.item.op = "chars"
         THEN \* a greedy run of single characters: longest first
              LET limit == IF re.max = -1 THEN Len(text) + 1 ELSE i + re.max
                  stop  == run_stop(re.item, text, i, limit, ignorecase)
              IN [k \in 1..(stop - (i + re.min) + 1) |-> stop - k + 1]
         ELSE ends_rep(re, 0, text, i, ignorecase)
    [] re.op = "wordb" ->
         IF is_word_at(text, i - 1) # is_word_at(text, i) THEN <<i>> ELSE <<>>
    [] re.op = "eol" ->
         IF i = Len(text) + 1 \/ (i = Len(text) /\ text[i] = "\n")
         THEN <<i>> ELSE <<>>
    [] re.op = "nla" ->
         IF ends(re.item, text, i, ignorecase) = <<>> THEN <<i>> ELSE <<>>

\* ends for the items of a sequence from the k-th on.
ends_cat(items, k, text, i, ignorecase) ==
  IF k > Len(items) THEN <<i>>
  ELSE LET first == ends(items[k], text, i, ignorecase)
       IN flatten([j \in DOMAIN first |->
                     ends_cat(items, k + 1, text, first[j], ignorecase)])

\* ends for a greedy repetition of which `count` rounds are done.
ends_rep(re, count, text, i, ignorecase) ==
  LET round == IF re.max = -1 \/ count < re.max
               THEN ends(re.item, text, i, ignorecase) ELSE <<>>
      more  == flatten([j \in DOMAIN round |->
                          IF round[j] > i
                          THEN ends_rep(re, count + 1, text, round[j], ignorecase)
                          ELSE <<>>])
  IN more \o (IF count >= re.min THEN <<i>> ELSE <<>>)

\* Where the match of `re` at position i of text ends; 0 if there is none.
match_end(re, text, i, ignorecase) ==
  LET es == ends(re, text, i, ignorecase) IN IF es = <<>> THEN 0 ELSE es[1]

\* re.finditer(re, text) from position pos on: the texts matched (group(0)),
\* leftmost first and non-overlapping.  No pattern here matches the empty
\* string.
RECURSIVE finditer(_, _, _, _)
finditer(re, text, pos, ignorecase) ==
  LET starts == {p \in pos..Len(text) : match_end(re, text, p, ignorecase) > p}
  IN IF starts = {} THEN <<>>
     ELSE LET s == CHOOSE p \in starts : \A q \in starts : p <= q
              e == match_end(re, text, s, ignorecase)
          IN <<SubSeq(text, s, e - 1)>> \o finditer(re, text, e, ignorecase)

\* utils.SUSPICIOUS_PATTERNS: the patterns with their labels (without the
\* icons), in table order.
SUSPICIOUS_PATTERNS ==
  <<
     \* https?://\S+
     [label |-> "Contains URL",
      pattern |-> Cat(<<Lit(<<"h", "t", "t", "p">>), Rep(Lit(<<"s">>), 0, 1), Lit(<<":", "/", "/">>), Rep(NotChars(Whitespace), 1, -1)>>)],
     \* \b(verify|confirm)\s+(your|my)\s+(account|identity|information)\b
     [label |-> "Verification prompt",
      pattern |-> Cat(<<WordB, Alt(<<Lit(<<"v", "e", "r", "i", "f", "y">>), Lit(<<"c", "o", "n", "f", "i", "r", "m">>)>>), Rep(Chars(Whitespace), 1, -1), Alt(<<Lit(<<"y", "o", "u", "r">>), Lit(<<"m", "y">>)>>), Rep(Chars(Whitespace), 1, -1), Alt(<<Lit(<<"a", "c", "c", "o", "u", "n", "t">>), Lit(<<"i", "d", "e", "n", "t", "i", "t", "y">>), Lit(<<"i", "n", "f", "o", "r", "m", "a", "t", "i", "o", "n">>)>>), WordB>>)],
     \* \b(reset|update)\s+(your|my)\s+password\b
     [label |-> "Password reset",
      pattern |-> Cat(<<WordB, Alt(<<Lit(<<"r", "e", "s", "e", "t">>), Lit(<<"u", "p", "d", "a", "t", "e">>)>>), Rep(Chars(Whitespace), 1, -1), Alt(<<Lit(<<"y", "o", "u", "r">>), Lit(<<"m", "y">>)>>), Rep(Chars(Whitespace), 1, -1), Lit(<<"p", "a", "s", "s", "w", "o", "r", "d">>), WordB>>)],
     \* \b(urgent|immediate(ly)?|action\s+(required|needed)|final\s+notice)\b
     [label |-> "Urgency",
      pattern |-> Cat(<<WordB, Alt(<<Lit(<<"u", "r", "g", "e", "n", "t">>), Cat(<<Lit(<<"i", "m", "m", "e", "d", "i", "a", "t", "e">>), Rep(Lit(<<"l", "y">>), 0, 1)>>), Cat(<<Lit(<<"a", "c", "t", "i", "o", "n">>), Rep(Chars(Whitespace), 1, -1), Alt(<<Lit(<<"r", "e", "q", "u", "i", "r", "e", "d">>), Lit(<<"n", "e", "e", "d", "e", "d">>)>>)>>), Cat(<<Lit(<<"f", "i", "n", "a", "l">>), Rep(Chars(Whitespace), 1, -1), Lit(<<"n", "o", "t", "i", "c", "e">>)>>)>>), WordB>>)],
     \* \bclick\s+here\b
     [label |-> "Generic 'Click Here'",
      pattern |-> Cat(<<WordB, Lit(<<"c", "l", "i", "c", "k">>), Rep(Chars(Whitespace), 1, -1), Lit(<<"h", "e", "r", "e">>), WordB>>)],
     \* \baccount\s+(suspended|locked|compromised|closed|deactivated)\b
     [label |-> "Account Threat",
      pattern |-> Cat(<<WordB, Lit(<<"a", "c", "c", "o", "u", "n", "t">>), Rep(Chars(Whitespace), 1, -1), Alt(<<Lit(<<"s", "u", "s", "p", "e", "n", "d", "e", "d">>), Lit(<<"l", "o", "c", "k", "e", "d">>), Lit(<<"c", "o", "m", "p", "r", "o", "m", "i", "s", "e", "d">>), Lit(<<"c", "l", "o", "s", "e", "d">>), Lit(<<"d", "e", "a", "c", "t", "i", "v", "a", "t", "e", "d">>)>>), WordB>>)],
     \* \b(security|unusual|suspicious)\s+(alert|activity|login)\b
     [label |-> "Security Alert",
      pattern |-> Cat(<<WordB, Alt(<<Lit(<<"s", "e", "c", "u", "r", "i", "t", "y">>), Lit(<<"u", "n", "u", "s", "u", "a", "l">>), Lit(<<"s", "u", "s", "p", "i", "c", "i", "o", "u", "s">>)>>), Rep(Chars(Whitespace), 1, -1), Alt(<<Lit(<<"a", "l", "e", "r", "t">>), Lit(<<"a", "c", "t", "i", "v", "i", "t", "y">>), Lit(<<"l", "o", "g", "i", "n">>)>>), WordB>>)],
     \* \b(won|prize|claim|lottery|winner)\b
     [label |-> "Prize/Lottery Scam",
      pattern |-> Cat(<<WordB, Alt(<<Lit(<<"w", "o", "n">>), Lit(<<"p", "r", "i", "z", "e">>), Lit(<<"c", "l", "a", "i", "m">>), Lit(<<"l", "o", "t", "t", "e", "r", "y">>), Lit(<<"w", "i", "n", "n", "e", "r">>)>>), WordB>>)],
     \* \b(invoice|payment|due|overdue|bill)\b
     [label |-> "Fake Invoice/Payment",
      pattern |-> Cat(<<WordB, Alt(<<Lit(<<"i", "n", "v", "o", "i", "c", "e">>), Lit(<<"p", "a", "y", "m", "e", "n", "t">>), Lit(<<"d", "u", "e">>), Lit(<<"o", "v", "e", "r", "d", "u", "e">>), Lit(<<"b", "i", "l", "l">>)>>), WordB>>)],
     \* \b(dear\s+(user|customer|client)|hello\b((?!\s+\w+)|$))
     [label |-> "Generic Greeting",
      pattern |-> Cat(<<WordB, Alt(<<Cat(<<Lit(<<"d", "e", "a", "r">>), Rep(Chars(Whitespace), 1, -1), Alt(<<Lit(<<"u", "s", "e", "r">>), Lit(<<"c", "u", "s", "t", "o", "m", "e", "r">>), Lit(<<"c", "l", "i", "e", "n", "t">>)>>)>>), Cat(<<Lit(<<"h", "e", "l", "l", "o">>), WordB, Alt(<<NotAhead(Cat(<<Rep(Chars(Whitespace), 1, -1), Rep(Chars(WordChars), 1, -1)>>)), Eol>>)>>)>>)>>)],
     \* \b(password|passcode|credential)\b
     [label |-> "Password Mentioned",
      pattern |-> Cat(<<WordB, Alt(<<Lit(<<"p", "a", "s", "s", "w", "o", "r", "d">>), Lit(<<"p", "a", "s", "s", "c", "o", "d", "e">>), Lit(<<"c", "r", "e", "d", "e", "n", "t", "i", "a", "l">>)>>), WordB>>)],
     \* \b(account\s+number|ssn|social\s+security|bank\s+details)\b
     [label |-> "Sensitive Info Request",
      pattern |-> Cat(<<WordB, Alt(<<Cat(<<Lit(<<"a", "c", "c", "o", "u", "n", "t">>), Rep(Chars(Whitespace), 1, -1), Lit(<<"n", "u", "m", "b", "e", "r">>)>>), Lit(<<"s", "s", "n">>), Cat(<<Lit(<<"s", "o", "c", "i", "a", "l">>), Rep(Chars(Whitespace), 1, -1), Lit(<<"s", "e", "c", "u", "r", "i", "t", "y">>)>>), Cat(<<Lit(<<"b", "a", "n", "k">>), Rep(Chars(Whitespace), 1, -1), Lit(<<"d", "e", "t", "a", "i", "l", "s">>)>>)>>), WordB>>)],
     \* \b(job\s+offer|hiring|recruiting|interview)\b
     [label |-> "Suspicious Job Offer",
      pattern |-> Cat(<<WordB, Alt(<<Cat(<<Lit(<<"j", "o", "b">>), Rep(Chars(Whitespace), 1, -1), Lit(<<"o", "f", "f", "e", "r">>)>>), Lit(<<"h", "i", "r", "i", "n", "g">>), Lit(<<"r", "e", "c", "r", "u", "i", "t", "i", "n", "g">>), Lit(<<"i", "n", "t", "e", "r", "v", "i", "e", "w">>)>>), WordB>>)]
  >>

\* privacy_detector.PRIVACY_PATTERNS: the finding types with their patterns,
\* in dict order.
PRIVACY_PATTERNS ==
  <<
     \* [a-zA-Z0-9._%+-]+@[a-zA-Z0-9.-]+\.[a-zA-Z]{2,}
     [type |-> "PII_EMAIL",
      pattern |-> Cat(<<Rep(Chars(Range(LowerCase) \cup Range(UpperCase) \cup Digits \cup {".", "_", "%", "+", "-"}), 1, -1), Lit(<<"@">>), Rep(Chars(Range(LowerCase) \cup Range(UpperCase) \cup Digits \cup {".", "-"}), 1, -1), Lit(<<".">>), Rep(Chars(Range(LowerCase) \cup Range(UpperCase)), 2, -1)>>)],
     \* (\+?\d{1,3}[-.\s]?)?(\(?\d{3}\)?[-.\s]?)?\d{3}[-.\s]?\d{4}
     [type |-> "PII_PHONE",
      pattern |-> Cat(<<Rep(Cat(<<Rep(Lit(<<"+">>), 0, 1), Rep(Chars(Digits), 1, 3), Rep(Chars(Whitespace \cup {"-", "."}), 0, 1)>>), 0, 1), Rep(Cat(<<Rep(Lit(<<"(">>), 0, 1), Rep(Chars(Digits), 3, 3), Rep(Lit(<<")">>), 0, 1), Rep(Chars(Whitespace \cup {"-", "."}), 0, 1)>>), 0, 1), Rep(Chars(Digits), 3, 3), Rep(Chars(Whitespace \cup {"-", "."}), 0, 1), Rep(Chars(Digits), 4, 4)>>)],
     \* \b(?:\d{4}[-.\s]?){3}\d{4}\b|\b\d{13,16}\b
     [type |-> "PII_CREDIT_CARD",
      pattern |-> Alt(<<Cat(<<WordB, Rep(Cat(<<Rep(Chars(Digits), 4, 4), Rep(Chars(Whitespace \cup {"-", "."}), 0, 1)>>), 3, 3), Rep(Chars(Digits), 4, 4), WordB>>), Cat(<<WordB, Rep(Chars(Digits), 13, 16), WordB>>)>>)],
     \* \b(password|ssn|social security|account number|username|login|verify your account)\b
     [type |-> "SENSITIVE_KEYWORD",
      pattern |-> Cat(<<WordB, Alt(<<Lit(<<"p", "a", "s", "s", "w", "o", "r", "d">>), Lit(<<"s", "s", "n">>), Lit(<<"s", "o", "c", "i", "a", "l", " ", "s", "e", "c", "u", "r", "i", "t", "y">>), Lit(<<"a", "c", "c", "o", "u", "n", "t", " ", "n", "u", "m", "b", "e", "r">>), Lit(<<"u", "s", "e", "r", "n", "a", "m", "e">>), Lit(<<"l", "o", "g", "i", "n">>), Lit(<<"v", "e", "r", "i", "f", "y", " ", "y", "o", "u", "r", " ", "a", "c", "c", "o", "u", "n", "t">>)>>), WordB>>)]
  >>

\* ------------------------------------------------------- finding scanners

\* The loop of find_suspicious_text over SUSPICIOUS_PATTERNS from the k-th
\* pattern on: (match.group(0).strip(), label) for every match, all patterns
\* with re.IGNORECASE.
RECURSIVE suspicious_results(_, _)
suspicious_results(text, k) ==
  IF k > Len(SUSPICIOUS_PATTERNS) THEN <<>>
  ELSE LET matches == finditer(SUSPICIOUS_PATTERNS[k].pattern, text, 1, TRUE)
       IN [j \in DOMAIN matches |->
             <<strip(matches[j]), SUSPICIOUS_PATTERNS[k].label>>]
          \o suspicious_results(text, k + 1)

\* unique_results without the check of the length of the key.
RECURSIVE unique_results_any_length(_, _, _)
unique_results_any_length(results, j, seen_matches) ==
  IF j > Len(results) THEN <<>>
  ELSE LET match_key == lower(results[j][1])
       IN IF match_key \notin seen_matches
          THEN <<results[j]>>
               \o unique_results_any_length(results, j + 1,
                                            seen_matches \cup {match_key})
          ELSE unique_results_any_length(results, j + 1, seen_matches)

\* unique_results with the text as it is for the key, without lower().
RECURSIVE unique_results_case_sensitive(_, _, _)
unique_results_case_sensitive(results, j, seen_matches) ==
  IF j > Len(results) THEN <<>>
  ELSE LET match_key == results[j][1]
       IN IF Len(match_key) > 2 /\ match_key \notin seen_matches
          THEN <<results[j]>>
               \o unique_results_case_sensitive(results, j + 1,
                                                seen_matches \cup {match_key})
          ELSE unique_results_case_sensitive(results, j + 1, seen_matches)

\* unique_results with a new result put in front of the list.
RECURSIVE unique_results_newest_first(_, _, _)
unique_results_newest_first(results, j, seen_matches) ==
  IF j > Len(results) THEN <<>>
  ELSE LET match_key == lower(results[j][1])
       IN IF Len(match_key) > 2 /\ match_key \notin seen_matches
          THEN unique_results_newest_first(results, j + 1,
                                           seen_matches \cup {match_key})
               \o <<results[j]>>
          ELSE unique_results_newest_first(results, j + 1, seen_matches)

\* The second loop of find_suspicious_text from the j-th result on: a result
\* is kept if its lower-cased text is longer than 2 and not in seen_matches.
RECURSIVE unique_results(_, _, _)
unique_results(results, j, seen_matches) ==
  IF j > Len(results) THEN <<>>
  ELSE LET match_key == lower(results[j][1])
       IN IF Len(match_key) > 2 /\ match_key \notin seen_matches
          THEN <<results[j]>>
               \o unique_results(results, j + 1, seen_matches \cup {match_key})
          ELSE unique_results(results, j + 1, seen_matches)

\* utils.find_suspicious_text: the list of (matched text, label).
find_suspicious_text(text) ==
  IF text = <<>> THEN <<>>
  ELSE unique_results(suspicious_results(text, 1), 1, {})

\* The loops of analyze_text_privacy over PRIVACY_PATTERNS from the k-th
\* pattern on: (finding_type, match.group(0).strip()) for every match, with
\* re.IGNORECASE for SENSITIVE_KEYWORD only.
RECURSIVE privacy_matches(_, _)
privacy_matches(text, k) ==
  IF k > Len(PRIVACY_PATTERNS) THEN <<>>
  ELSE LET finding_type == PRIVACY_PATTERNS[k].type
           matches == finditer(PRIVACY_PATTERNS[k].pattern, text, 1,
                               finding_type = "SENSITIVE_KEYWORD")
       IN [j \in DOMAIN matches |->
             [type |-> finding_type, text |-> strip(matches[j])]]
          \o privacy_matches(text, k + 1)

\* privacy_findings_from without the found_matches check.
RECURSIVE privacy_findings_all(_, _, _)
privacy_findings_all(matches, j, found_matches) ==
  IF j > Len(matches) THEN <<>>
  ELSE IF matches[j].text # <<>>
       THEN <<matches[j]>> \o privacy_findings_all(matches, j + 1, found_matches)
       ELSE privacy_findings_all(matches, j + 1, found_matches)

\* The findings analyze_text_privacy appends, from the j-th match on: a match
\* is appended if its text is not empty and (type, text) is not in
\* found_matches.
RECURSIVE privacy_findings_from(_, _, _)
privacy_findings_from(matches, j, found_matches) ==
  IF j > Len(matches) THEN <<>>
  ELSE IF matches[j].text # <<>> /\ matches[j] \notin found_matches
       THEN <<matches[j]>>
            \o privacy_findings_from(matches, j + 1, found_matches \cup {matches[j]})
       ELSE privacy_findings_from(matches, j + 1, found_matches)

\* privacy_detector.analyze_text_privacy: the list of {'type', 'text'}.
analyze_text_privacy(ocr_text) ==
  IF ocr_text = <<>> THEN <<>>
  ELSE privacy_findings_from(privacy_matches(ocr_text, 1), 1, {})

\* ------------------------------------------- scanners over any table

\* How re.finditer(pattern, text, flags) ends for a table entry: "" when the
\* pattern compiles, otherwise the class of the exception raised: "re.error"
\* for a malformed pattern such as "(", "OverflowError" for a repetition count
\* that is too large such as "a{4294967296}".
compile_error(entry) == IF "error" \in DOMAIN entry THEN entry.error ELSE ""

\* The first loop of find_suspicious_text over `table` from the k-th entry
\* on.  `except re.error` skips the entry; any other exception leaves the
\* function.
RECURSIVE suspicious_results_over(_, _, _)
suspicious_results_over(table, text, k) ==
  IF k > Len(table) THEN [raised |-> "", results |-> <<>>]
  ELSE LET error == compile_error(table[k])
       IN IF error = "re.error" THEN suspicious_results_over(table, text, k + 1)
          ELSE IF error # "" THEN [raised |-> error, results |-> <<>>]
          ELSE LET matches == finditer(table[k].pattern, text, 1, TRUE)
                   rest    == suspicious_results_over(table, text, k + 1)
               IN [raised  |-> rest.raised,
                   results |-> [j \in DOMAIN matches |->
                                  <<strip(matches[j]), table[k].label>>]
                               \o rest.results]

\* find_suspicious_text with `table` for SUSPICIOUS_PATTERNS: what it raises
\* ("" if nothing) and what it returns.
find_suspicious_text_over(table, text) ==
  IF text = <<>> THEN [raised |-> "", value |-> <<>>]
  ELSE LET scan == suspicious_results_over(table, text, 1)
       IN IF scan.raised # "" THEN [raised |-> scan.raised, value |-> <<>>]
          ELSE [raised |-> "", value |-> unique_results(scan.results, 1, {})]

\* The loop of analyze_text_privacy over `table` from the k-th entry on.
\* `except Exception` skips an entry whatever it raises.
RECURSIVE privacy_matches_over(_, _, _)
privacy_matches_over(table, text, k) ==
  IF k > Len(table) THEN <<>>
  ELSE IF compile_error(table[k]) # "" THEN privacy_matches_over(table, text, k + 1)
  ELSE LET finding_type == table[k].type
           matches == finditer(table[k].pattern, text, 1,
                               finding_type = "SENSITIVE_KEYWORD")
       IN [j \in DOMAIN matches |->
             [type |-> finding_type, text |-> strip(matches[j])]]
          \o privacy_matches_over(table, text, k + 1)

\* analyze_text_privacy with `table` for PRIVACY_PATTERNS.
analyze_text_privacy_over(table, ocr_text) ==
  IF ocr_text = <<>> THEN [raised |-> "", value |-> <<>>]
  ELSE [raised |-> "",
        value  |-> privacy_findings_from(privacy_matches_over(table, ocr_text, 1), 1, {})]

\* ------------------------------------------------------------------ inputs

Fragments ==
  << <<" ", "\n">>,
     <<"E", "r", "r", "o", "r", ":", " ", "h", "t", "t", "p", ":", "/", "/", "t", "i", "n", "y", "u", "r", "l", ".", "c", "o", "m", "/", "a", " ">>,
     <<"U", "R", "G", "E", "N", "T", ":", " ", "v", "e", "r", "i", "f", "y", " ", "n", "o", "w", ",", " ", "a", "s", "a", "p", "!", " ", "h", "t", "t", "p", ":", "/", "/", "b", "i", "t", ".", "l", "y", "/", "x", " ", "h", "t", "t", "p", ":", "/", "/", "b", "i", "t", ".", "l", "y", "/", "y", " ">>,
     <<"D", "e", "a", "r", " ", "U", "s", "e", "r", ",", " ", "y", "o", "u", "r", " ", "b", "a", "n", "k", " ", "p", "a", "s", "s", "w", "o", "r", "d", " ", "a", "l", "e", "r", "t", "\t">>,
     <<"a", "c", "t", "i", "o", "n", " ", "r", "e", "q", "u", "i", "r", "e", "d">>,
     <<"V", "e", "r", "i", "f", "y", " ", "y", "o", "u", "r", " ", "a", "c", "c", "o", "u", "n", "t", " ", "a", "@", "b", ".", "c", "o", " ", "5", "5", "5", "-", "1", "2", "3", "4", " ">> >>

\* The fragments named by `choice`, concatenated.
RECURSIVE concat(_)
concat(choice) ==
  IF choice = <<>> THEN <<>> ELSE Fragments[Head(choice)] \o concat(Tail(choice))

\* The input texts: every concatenation of at most MaxFrags fragments, the
\* empty string included.
Texts ==
  {concat(choice) : choice \in UNION {[1..n -> DOMAIN Fragments] : n \in 0..MaxFrags}}

\* The texts the scanners are run on by themselves: the empty string, a
\* phrase twice, a word in two letter cases, a text several patterns match,
\* addresses and numbers, and a word between whitespace.
ScanTexts ==
  { <<>>,
    <<"v", "e", "r", "i", "f", "y", " ", "y", "o", "u", "r", " ", "a", "c", "c", "o", "u", "n", "t", ",", " ", "v", "e", "r", "i", "f", "y", " ", "y", "o", "u", "r", " ", "a", "c", "c", "o", "u", "n", "t">>,
    <<"P", "a", "s", "s", "w", "o", "r", "d", " ", "o", "r", " ", "p", "a", "s", "s", "w", "o", "r", "d">>,
    <<"U", "R", "G", "E", "N", "T", ":", " ", "r", "e", "s", "e", "t", " ", "m", "y", " ", "p", "a", "s", "s", "w", "o", "r", "d", " ", "a", "t", " ", "h", "t", "t", "p", ":", "/", "/", "b", "i", "t", ".", "l", "y", "/", "x", " ", "u", "r", "g", "e", "n", "t">>,
    <<"a", "@", "b", ".", "c", "o", " ", "A", "@", "b", ".", "c", "o", " ", "5", "5", "5", "-", "1", "2", "3", "4", " ", "b", "i", "l", "l", " ", "d", "u", "e">>,
    <<" ", "h", "e", "l", "l", "o", " ", "\n">> }

\* The exception classes a pattern of a table raises in re.finditer.
ErrorClasses == {"re.error", "OverflowError"}

\* `table` with its k-th entry holding a pattern that raises `error`.
with_error(table, k, error) ==
  [j \in DOMAIN table |-> IF j = k THEN [error |-> error] @@ table[j] ELSE table[j]]

\* A table entry around the SENSITIVE_KEYWORD pattern of PRIVACY_PATTERNS,
\* which matches texts that entries of SUSPICIOUS_PATTERNS match too.
keyword_entry ==
  [label |-> "Sensitive keyword", pattern |-> PRIVACY_PATTERNS[4].pattern]

\* SUSPICIOUS_PATTERNS as it is, with one entry that raises, or with one more
\* entry in front or at the end.
SuspiciousTables ==
  {SUSPICIOUS_PATTERNS}
  \cup {with_error(SUSPICIOUS_PATTERNS, k, error) :
          k \in DOMAIN SUSPICIOUS_PATTERNS, error \in ErrorClasses}
  \cup {<<keyword_entry>> \o SUSPICIOUS_PATTERNS, SUSPICIOUS_PATTERNS \o <<keyword_entry>>}

\* PRIVACY_PATTERNS as it is, or with one entry that raises.
PrivacyTables ==
  {PRIVACY_PATTERNS}
  \cup {with_error(PRIVACY_PATTERNS, k, error) :
          k \in DOMAIN PRIVACY_PATTERNS, error \in ErrorClasses}

\* The texts scored again and again: the empty string, whitespace, and the
\* fragments with a URL, with urgency terms, and with a password request.
RepeatedTexts == {<<>>} \cup {Fragments[k] : k \in 1..4}

\* The outcomes a deterministic classifier gives: "safe" or "phishing" with
\* full confidence, or an exception.
StubOutcomes ==
  {outcome \in BackendOutcomes :
     \/ outcome.kind = "raise"
     \/ outcome.confidence = ConfSteps /\ outcome.predicted_class \in {0, 2}}

\* The deterministic classifiers: one outcome for text of fewer than 30
\* characters, one for longer text.
Stubs == [short : StubOutcomes, long : StubOutcomes]

\* What the classifier `classifier` does with text t.
stub_outcome(classifier, t) ==
  IF Len(t) < 30 THEN classifier.short ELSE classifier.long

\* The texts an urgency term is added to: the empty string, a text with an
\* urgency term and a financial term, a suspicious URL, and a text with two
\* urgency terms and a popup keyword.
UrgencyBases ==
  { <<>>,
    <<"u", "r", "g", "e", "n", "t", " ", "c", "r", "e", "d", "i", "t", " ", "c", "a", "r", "d">>,
    <<"h", "t", "t", "p", ":", "/", "/", "b", "i", "t", ".", "l", "y", "/", "x">>,
    <<"a", "s", "a", "p", "!", " ", "u", "r", "g", "e", "n", "t", " ", "a", "l", "e", "r", "t">> }

\* Text t with `term` put in after its first `pos` characters.
inserted(t, pos, term) == SubSeq(t, 1, pos) \o term \o SubSeq(t, pos + 1, Len(t))

\* The places of t where a word starts or ends: its start, its end, and both
\* sides of every space.
word_boundaries(t) ==
  {pos \in 0..Len(t) :
     \/ pos \in {0, Len(t)}
     \/ t[pos] = " "
     \/ t[pos + 1] = " "}

\* The classifiers whose output is the same for every text.
FixedStubs == {classifier \in Stubs : classifier.short = classifier.long}

\* A phishing text with an urgency term, a password request and a shortened
\* URL.
UrgentExample ==
  <<"U", "R", "G", "E", "N", "T", "!", " ", "V", "e", "r", "i", "f", "y", " ", "y", "o", "u", "r", " ", "p", "a", "s", "s", "w", "o", "r", "d", " ", "n", "o", "w", ":", " ", "h", "t", "t", "p", ":", "/", "/", "b", "i", "t", ".", "l", "y", "/", "x">>

\* A phishing text with a generic greeting and a URL of a suspicious domain.
SuspendedExample ==
  <<"D", "e", "a", "r", " ", "u", "s", "e", "r", ",", " ", "y", "o", "u", "r", " ", "a", "c", "c", "o", "u", "n", "t", " ", "i", "s", " ", "s", "u", "s", "p", "e", "n", "d", "e", "d", ".", " ", "C", "l", "i", "c", "k", " ", "h", "e", "r", "e", " ", "t", "o", " ", "v", "e", "r", "i", "f", "y", ":", " ", "h", "t", "t", "p", ":", "/", "/", "v", "e", "r", "i", "f", "y", "-", "a", "c", "c", "o", "u", "n", "t", ".", "c", "o", "m">>

ExampleTexts == {UrgentExample, SuspendedExample}

\* The classifiers that give one outcome, any of the backend's, for every text.
ExampleStubs == {[short |-> outcome, long |-> outcome] : outcome \in BackendOutcomes}

\* The texts of overlapping calls: whitespace and two fragments with
\* different features.
OverlapTexts == {Fragments[k] : k \in {1, 2, 5}}

\* Texts with URLs: a clean host with a denylist name in the path, two
\* suspicious hosts of which one has a second denylist name in its query, a
\* clean host with a denylist name in the query next to a suspicious host,
\* denylist names without a scheme, and a clean URL.
UrlTexts ==
  { <<"G", "o", " ", "t", "o", " ", "h", "t", "t", "p", ":", "/", "/", "e", "x", "a", "m", "p", "l", "e", ".", "c", "o", "m", "/", "b", "i", "t", ".", "l", "y", " ", "n", "o", "w">>,
    <<"s", "e", "e", " ", "h", "t", "t", "p", ":", "/", "/", "b", "i", "t", ".", "l", "y", "/", "x", " ", "a", "n", "d", " ", "h", "t", "t", "p", "s", ":", "/", "/", "t", "i", "n", "y", "u", "r", "l", ".", "c", "o", "m", "/", "y", "?", "u", "=", "b", "i", "t", ".", "l", "y">>,
    <<"h", "t", "t", "p", ":", "/", "/", "e", "x", "a", "m", "p", "l", "e", ".", "c", "o", "m", "/", "?", "n", "e", "x", "t", "=", "v", "e", "r", "i", "f", "y", "-", "a", "c", "c", "o", "u", "n", "t", " ", "h", "t", "t", "p", ":", "/", "/", "c", "l", "i", "c", "k", "-", "h", "e", "r", "e", ".", "n", "e", "t">>,
    <<"b", "i", "t", ".", "l", "y", " ", "t", "i", "n", "y", "u", "r", "l">>,
    <<"h", "t", "t", "p", "s", ":", "/", "/", "s", "a", "f", "e", ".", "o", "r", "g", "/", "a">> }

\* A table entry whose pattern \b(id|pin|otp)\s* has matches of two and of
\* three letters, with or without whitespace after them.
short_entry ==
  [label |-> "Code request",
   pattern |-> Cat(<<WordB, Alt(<<Lit(<<"i", "d">>), Lit(<<"p", "i", "n">>), Lit(<<"o", "t", "p">>)>>), Rep(Chars(Whitespace), 0, -1)>>)]

\* SUSPICIOUS_PATTERNS with short_entry put in at any place.
ShortTables ==
  {SubSeq(SUSPICIOUS_PATTERNS, 1, k) \o <<short_entry>>
     \o SubSeq(SUSPICIOUS_PATTERNS, k + 1, Len(SUSPICIOUS_PATTERNS)) :
     k \in 0..Len(SUSPICIOUS_PATTERNS)}

\* Texts with matches of two letters before and after longer ones.
ShortTexts ==
  { <<"Y", "o", "u", "r", " ", "I", "D", " ", " ", "a", "n", "d", " ", "P", "I", "N", " ", "p", "l", "e", "a", "s", "e", ":", " ", "i", "d", " ", "p", "i", "n">>,
    <<"s", "e", "n", "d", " ", "o", "t", "p", " ", "o", "r", " ", "I", "D", " ", "t", "o", " ", "c", "l", "a", "i", "m", " ", "p", "r", "i", "z", "e">>,
    <<"I", "D">>,
    <<"u", "r", "g", "e", "n", "t", ":", " ", "b", "i", "l", "l", " ", "d", "u", "e">> }

\* The feature vectors the pure scoring functions are applied to.
FeatureVectors ==
  {[urgency_words |-> u, suspicious_urls |-> s, password_requests |-> p,
    financial_terms |-> f, generic_greetings |-> g, length |-> le[1],
    entropy |-> le[2], has_popup_keywords |-> w] :
     u \in 0..MaxCount, s \in 0..MaxCount, p \in 0..1, f \in 0..1, g \in 0..1,
     w \in 0..1, le \in {<<0, 0>>, <<2, EntropyScale>>}}

\* The classifier results the pure scoring functions are applied to: every
\* label with every confidence, and the two degraded results.
MlResults ==
  {[confidence |-> k, prediction |-> labels[i]] :
     k \in 0..ConfSteps, i \in DOMAIN labels}
  \cup {ml_fallback, [confidence |-> 0, prediction |-> "error"]}

\* ------------------------------------------------------------------- state

VARIABLES
  model,        \* self.model: "None" or "loaded"
  pc,           \* where the current analyze_scam_risk call stands
  text,         \* the argument of the current call
  features,     \* locals of analyze_scam_risk: <<>> until assigned
  ml_analysis,
  risk_score,
  severity,
  reasons,
  result,       \* what the call returned: <<>> until it returns
  backend,      \* the tokenizer/model invocation of the current call: "idle",
                \* "running", "hung", or how it ended: "ok", "raise"
  ml_calls,     \* _ml_analysis invocations of the current call
  flagged_items,    \* what find_suspicious_text returned for the text
  privacy_findings, \* what analyze_text_privacy returned for the text
  suspicious_table, \* utils.SUSPICIOUS_PATTERNS as the scan finds it
  privacy_table,    \* privacy_detector.PRIVACY_PATTERNS as the scan finds it
  stub,             \* the deterministic classifier loaded as the model, if one
                    \* is: the outcome of the backend for short and long text
  history,          \* what a caller has seen: text |-> the first result
                    \* analyze_scam_risk returned for it
  calls,            \* the frames of the overlapping calls of
                    \* analyze_scam_risk, one per thread
  is_loading,       \* PhishRxApp.is_loading
  response_queue,   \* PhishRxApp.response_queue: the messages put, oldest first
  last_ai_summary,  \* PhishRxApp.last_ai_summary
  threads,          \* the worker threads on_ask started, in order: "running"
                    \* get_ai_response, "put" (message in the queue, thread
                    \* not yet ended), or "ended"
  window_exists,    \* winfo_exists() of the window
  ocr_ok,           \* self.ocr_text does not start with "Error:"
  ai_pc,            \* get_ai_response: "idle", "loop" (in the retry loop),
                    \* "returned" or "raised"
  attempt,          \* the loop variable of get_ai_response
  delay,            \* its delay, in seconds
  sent,             \* the responses to the requests it has posted, in order
  sleeps,           \* the arguments of its time.sleep calls, in order
  returned,         \* the string it returned
  scan_history,     \* the records of SCAN_HISTORY_FILE below the header line
  recorded,         \* the saved records whose timestamp was not deleted
                    \* after they were saved
  deleted           \* the last delete_scan_history_item: its timestamp, what
                    \* it returned, and whether a record had the timestamp

vars ==
  <<model, pc, text, features, ml_analysis, risk_score, severity, reasons,
    result, backend, ml_calls, flagged_items, privacy_findings,
    suspicious_table, privacy_table, stub, history, calls,
    is_loading, response_queue, last_ai_summary, threads, window_exists, ocr_ok,
    ai_pc, attempt, delay, sent, sleeps, returned,
    scan_history, recorded, deleted>>

\* The module-level tables.
tables == <<suspicious_table, privacy_table>>

\* The window of phisher_ai_gui.
gui == <<is_loading, response_queue, last_ai_summary, threads, window_exists, ocr_ok>>

\* The call of ai_handler.get_ai_response.
request == <<ai_pc, attempt, delay, sent, sleeps, returned>>

\* The scan history file of scan_logger.
logbook == <<scan_history, recorded, deleted>>

\* What lies outside the scanners and the classifier.
outside == <<gui, request, logbook>>

\* No window is open.
NoWindow ==
  /\ is_loading = FALSE
  /\ response_queue = <<>>
  /\ last_ai_summary = ""
  /\ threads = <<>>
  /\ window_exists = FALSE
  /\ ocr_ok = FALSE

\* get_ai_response has not been called.
NoRequest ==
  /\ ai_pc = "idle"
  /\ attempt = 0
  /\ delay = 0
  /\ sent = <<>>
  /\ sleeps = <<>>
  /\ returned = <<>>

\* The scan history file holds no record.
NoLog ==
  /\ scan_history = <<>>
  /\ recorded = <<>>
  /\ deleted = [timestamp |-> "", returned |-> FALSE, present |-> FALSE]

\* Nothing outside the scanners and the classifier is in use.
Detached == NoWindow /\ NoRequest /\ NoLog

\* What no step of analyze_scam_risk and no scan writes.
ambient == <<tables, stub, history, calls, outside>>

\* No stub stands for the classifier, no caller keeps results, and no other
\* thread is in a call.
Unobserved == stub = <<>> /\ history = <<>> /\ calls = <<>>

findings == <<flagged_items, privacy_findings>>

locals == <<features, ml_analysis, risk_score, severity, reasons>>

\* ScamClassifier(): _load_or_train_model either leaves a model and its
\* tokenizer loaded, or fails and _setup_fallback sets self.model = None.
Init ==
  /\ Detached
  /\ model \in {"None", "loaded"}
  /\ pc = "idle"
  /\ text = <<>>
  /\ features = <<>>
  /\ ml_analysis = <<>>
  /\ risk_score = 0
  /\ severity = ""
  /\ reasons = <<>>
  /\ result = <<>>
  /\ backend = "idle"
  /\ ml_calls = 0
  /\ flagged_items = <<>>
  /\ privacy_findings = <<>>
  /\ suspicious_table = SUSPICIOUS_PATTERNS
  /\ privacy_table = PRIVACY_PATTERNS
  /\ Unobserved

\* A caller has the text t of a screenshot and hands it to the two scanners
\* and to the scam classifier, one after the other.
Call(t) ==
  /\ pc = "idle"
  /\ pc' = "find"
  /\ text' = t
  /\ UNCHANGED <<model, locals, result, backend, ml_calls, findings, ambient>>

\* flagged_items = utils.find_suspicious_text(text)
FindSuspiciousText ==
  /\ pc = "find"
  /\ flagged_items' = find_suspicious_text(text)
  /\ pc' = "privacy"
  /\ UNCHANGED <<model, text, locals, result, backend, ml_calls, privacy_findings, ambient>>

\* privacy_findings = analyze_text_privacy(text)
AnalyzeTextPrivacy ==
  /\ pc = "privacy"
  /\ privacy_findings' = analyze_text_privacy(text)
  /\ pc' = "analyze"
  /\ UNCHANGED <<model, text, locals, result, backend, ml_calls, flagged_items, ambient>>

\* The caller has taken what the call returned (or the exception it raised):
\* the frame of the call is gone and the engine keeps nothing of it.
Release ==
  /\ pc \in {"done", "raised"}
  /\ pc' = "idle"
  /\ text' = <<>>
  /\ features' = <<>>
  /\ ml_analysis' = <<>>
  /\ risk_score' = 0
  /\ severity' = ""
  /\ reasons' = <<>>
  /\ result' = <<>>
  /\ ml_calls' = 0
  /\ backend' = "idle"
  /\ flagged_items' = <<>>
  /\ privacy_findings' = <<>>
  /\ UNCHANGED <<model, ambient>>

\* is_blank also taking text that starts with the OCR error sentinel "Error:"
\* for blank.
is_blank_or_error(t) ==
  strip(t) = <<>> \/ starts_at(<<"E", "r", "r", "o", "r", ":">>, strip(t), 1)

\* `if not text.strip()` of analyze_scam_risk
is_blank(t) == strip(t) = <<>>

\* analyze_scam_risk, its first statement: blank text returns _empty_result().
AnalyzeScamRisk ==
  /\ pc = "analyze"
  /\ IF is_blank(text)
     THEN /\ result' = _empty_result
          /\ pc' = "done"
     ELSE /\ pc' = "extract"
          /\ UNCHANGED result
  /\ UNCHANGED <<model, text, locals, backend, ml_calls, findings, ambient>>

\* features = self._extract_features(text)
ExtractFeatures ==
  /\ pc = "extract"
  /\ features' = _extract_features(text)
  /\ pc' = "ml"
  /\ UNCHANGED <<model, text, ml_analysis, risk_score, severity, reasons, result,
                 backend, ml_calls, findings, ambient>>

\* ml_analysis = self._ml_analysis(text): without a model it returns the
\* fallback at once, otherwise it enters the try block and invokes the
\* tokenizer and the model.
MlAnalysis ==
  /\ pc = "ml"
  /\ ml_calls' = ml_calls + 1
  /\ IF model = "None"
     THEN /\ ml_analysis' = ml_fallback
          /\ pc' = "score"
          /\ UNCHANGED backend
     ELSE /\ backend' = "running"
          /\ pc' = "ml_wait"
          /\ UNCHANGED ml_analysis
  /\ UNCHANGED <<model, text, features, risk_score, severity, reasons, result,
                 findings, ambient>>

\* BackendRespond with one more attempt after the backend raised.
BackendRespondRetrying ==
  /\ pc = "ml_wait"
  /\ backend = "running"
  /\ \E outcome \in BackendOutcomes :
       LET r == ml_try(outcome)
       IN IF outcome.kind = "raise" /\ ml_calls < 2
          THEN /\ backend' = "idle"
               /\ pc' = "ml"
               /\ UNCHANGED ml_analysis
          ELSE /\ backend' = outcome.kind
               /\ pc' = "score"
               /\ ml_analysis' = r.value
  /\ UNCHANGED <<model, text, features, risk_score, severity, reasons, result,
                 ml_calls, findings, ambient>>

\* The tokenizer and the model return or raise, and _ml_analysis finishes.
BackendRespond ==
  /\ pc = "ml_wait"
  /\ backend = "running"
  /\ \E outcome \in BackendOutcomes :
       LET r == ml_try(outcome)
       IN /\ backend' = outcome.kind
          /\ IF r.raised
             THEN /\ pc' = "raised"
                  /\ UNCHANGED ml_analysis
             ELSE /\ pc' = "score"
                  /\ ml_analysis' = r.value
  /\ UNCHANGED <<model, text, features, risk_score, severity, reasons, result,
                 ml_calls, findings, ambient>>

\* The tokenizer or the model never returns; _ml_analysis sets no timeout and
\* has no other thread to interrupt it.
BackendHang ==
  /\ pc = "ml_wait"
  /\ backend = "running"
  /\ backend' = "hung"
  /\ UNCHANGED <<model, pc, text, locals, result, ml_calls, findings, ambient>>

\* risk_score = self._calculate_risk_score(features, ml_analysis)
CalculateRiskScore ==
  /\ pc = "score"
  /\ IF ScoredFeatures \subseteq DOMAIN features
     THEN /\ risk_score' = _calculate_risk_score(features, ml_analysis)
          /\ pc' = "classify"
     ELSE /\ pc' = "raised"
          /\ UNCHANGED risk_score
  /\ UNCHANGED <<model, text, features, ml_analysis, severity, reasons, result,
                 backend, ml_calls, findings, ambient>>

\* severity, reasons = self._classify_threat(features, ml_analysis, risk_score)
ClassifyThreat ==
  /\ pc = "classify"
  /\ LET sr == _classify_threat(features, ml_analysis, risk_score)
     IN /\ severity' = sr[1]
        /\ reasons' = sr[2]
  /\ pc' = "return"
  /\ UNCHANGED <<model, text, features, ml_analysis, risk_score, result, backend,
                 ml_calls, findings, ambient>>

\* Return with the number of texts scored before as the ml_confidence.
ReturnNumbered ==
  /\ pc = "return"
  /\ result' = [risk_result(severity, reasons, risk_score, ml_analysis, features)
                  EXCEPT !.ml_confidence = Cardinality(DOMAIN history)]
  /\ pc' = "done"
  /\ UNCHANGED <<model, text, locals, backend, ml_calls, findings, ambient>>

\* return {...}
Return ==
  /\ pc = "return"
  /\ result' = risk_result(severity, reasons, risk_score, ml_analysis, features)
  /\ pc' = "done"
  /\ UNCHANGED <<model, text, locals, backend, ml_calls, findings, ambient>>

\* The steps of a call once it is made.
Step ==
  \/ FindSuspiciousText
  \/ AnalyzeTextPrivacy
  \/ AnalyzeScamRisk
  \/ ExtractFeatures
  \/ MlAnalysis
  \/ BackendRespond
  \/ BackendHang
  \/ CalculateRiskScore
  \/ ClassifyThreat
  \/ Return

Next == (\E t \in Texts : Call(t)) \/ Step \/ Release

Spec == Init /\ [][Next]_vars

\* The steps of a call from the classifier adapter on.
AdapterOnward ==
  \/ MlAnalysis
  \/ BackendRespond
  \/ BackendHang
  \/ CalculateRiskScore
  \/ ClassifyThreat
  \/ Return

\* A call that has reached the adapter takes its next step, and a running
\* backend returns, raises or hangs: the call runs on a thread that nothing
\* suspends.  Nothing makes a caller call.
FairSpec == Spec /\ WF_vars(AdapterOnward)

\* The pure scoring functions on every feature vector and classifier result.
ScoreInit ==
  /\ Detached
  /\ model = "loaded"
  /\ pc = "score"
  /\ text = <<>>
  /\ features \in FeatureVectors
  /\ ml_analysis \in MlResults
  /\ risk_score = 0
  /\ severity = ""
  /\ reasons = <<>>
  /\ result = <<>>
  /\ backend = "idle"
  /\ ml_calls = 1
  /\ flagged_items = <<>>
  /\ privacy_findings = <<>>
  /\ suspicious_table = SUSPICIOUS_PATTERNS
  /\ privacy_table = PRIVACY_PATTERNS
  /\ Unobserved

ScoreNext == CalculateRiskScore \/ ClassifyThreat \/ Return

ScoreSpec == ScoreInit /\ [][ScoreNext]_vars

\* flagged_items = find_suspicious_text(text), over the table as it is.
ScanSuspicious ==
  /\ pc = "find"
  /\ LET r == find_suspicious_text_over(suspicious_table, text)
     IN IF r.raised # ""
        THEN /\ pc' = "raised"
             /\ UNCHANGED flagged_items
        ELSE /\ pc' = "privacy"
             /\ flagged_items' = r.value
  /\ UNCHANGED <<model, text, locals, result, backend, ml_calls, privacy_findings,
                 ambient>>

\* privacy_findings = analyze_text_privacy(text), over the table as it is.
ScanPrivacy ==
  /\ pc = "privacy"
  /\ LET r == analyze_text_privacy_over(privacy_table, text)
     IN IF r.raised # ""
        THEN /\ pc' = "raised"
             /\ UNCHANGED privacy_findings
        ELSE /\ pc' = "scanned"
             /\ privacy_findings' = r.value
  /\ UNCHANGED <<model, text, locals, result, backend, ml_calls, flagged_items,
                 ambient>>

\* The two scanners on every text of ScanTexts, with one table or none edited.
ScanInit ==
  /\ Detached
  /\ model = "None"
  /\ pc = "find"
  /\ text \in ScanTexts
  /\ features = <<>>
  /\ ml_analysis = <<>>
  /\ risk_score = 0
  /\ severity = ""
  /\ reasons = <<>>
  /\ result = <<>>
  /\ backend = "idle"
  /\ ml_calls = 0
  /\ flagged_items = <<>>
  /\ privacy_findings = <<>>
  /\ suspicious_table \in SuspiciousTables
  /\ privacy_table \in PrivacyTables
  /\ suspicious_table = SUSPICIOUS_PATTERNS \/ privacy_table = PRIVACY_PATTERNS
  /\ Unobserved

ScanNext == ScanSuspicious \/ ScanPrivacy

ScanSpec == ScanInit /\ [][ScanNext]_vars

\* A caller invokes scam_classifier.analyze_scam_risk(t) alone, without the
\* scanners.
CallScoring(t) ==
  /\ pc = "idle"
  /\ pc' = "analyze"
  /\ text' = t
  /\ UNCHANGED <<model, locals, result, backend, ml_calls, findings, ambient>>

\* The deterministic classifier returns or raises, and _ml_analysis finishes.
StubRespond ==
  /\ pc = "ml_wait"
  /\ backend = "running"
  /\ LET outcome == stub_outcome(stub, text)
         r == ml_try(outcome)
     IN /\ backend' = outcome.kind
        /\ IF r.raised
           THEN /\ pc' = "raised"
                /\ UNCHANGED ml_analysis
           ELSE /\ pc' = "score"
                /\ ml_analysis' = r.value
  /\ UNCHANGED <<model, text, features, risk_score, severity, reasons, result,
                 ml_calls, findings, ambient>>

\* The caller takes the result, keeps it if it is the first for this text,
\* and the frame of the call is gone.
ReleaseRecorded ==
  /\ pc = "done"
  /\ pc' = "idle"
  /\ history' = IF text \in DOMAIN history THEN history
                ELSE (text :> result) @@ history
  /\ text' = <<>>
  /\ features' = <<>>
  /\ ml_analysis' = <<>>
  /\ risk_score' = 0
  /\ severity' = ""
  /\ reasons' = <<>>
  /\ result' = <<>>
  /\ ml_calls' = 0
  /\ backend' = "idle"
  /\ UNCHANGED <<model, findings, tables, stub, calls, outside>>

\* An engine whose classifier, if it has one, is deterministic.
RepeatInit ==
  /\ Detached
  /\ model \in {"None", "loaded"}
  /\ pc = "idle"
  /\ text = <<>>
  /\ features = <<>>
  /\ ml_analysis = <<>>
  /\ risk_score = 0
  /\ severity = ""
  /\ reasons = <<>>
  /\ result = <<>>
  /\ backend = "idle"
  /\ ml_calls = 0
  /\ flagged_items = <<>>
  /\ privacy_findings = <<>>
  /\ suspicious_table = SUSPICIOUS_PATTERNS
  /\ privacy_table = PRIVACY_PATTERNS
  /\ stub \in Stubs
  /\ history = <<>>
  /\ calls = <<>>

\* Calls of analyze_scam_risk one after the other, on any texts in any order.
RepeatNext ==
  \/ \E t \in RepeatedTexts : CallScoring(t)
  \/ AnalyzeScamRisk
  \/ ExtractFeatures
  \/ MlAnalysis
  \/ StubRespond
  \/ CalculateRiskScore
  \/ ClassifyThreat
  \/ Return
  \/ ReleaseRecorded

RepeatSpec == RepeatInit /\ [][RepeatNext]_vars

\* The caller keeps the result for the text, puts one more occurrence of an
\* urgency term into the text and calls analyze_scam_risk on the new text.
CallWithOneMore(term, pos) ==
  /\ pc = "done"
  /\ history = <<>>
  /\ history' = (text :> result)
  /\ text' = inserted(text, pos, term)
  /\ pc' = "analyze"
  /\ features' = <<>>
  /\ ml_analysis' = <<>>
  /\ risk_score' = 0
  /\ severity' = ""
  /\ reasons' = <<>>
  /\ result' = <<>>
  /\ ml_calls' = 0
  /\ backend' = "idle"
  /\ UNCHANGED <<model, findings, tables, stub, calls, outside>>

\* An engine whose classifier, if it has one, gives one fixed output.
OneMoreInit ==
  /\ Detached
  /\ model \in {"None", "loaded"}
  /\ pc = "idle"
  /\ text = <<>>
  /\ features = <<>>
  /\ ml_analysis = <<>>
  /\ risk_score = 0
  /\ severity = ""
  /\ reasons = <<>>
  /\ result = <<>>
  /\ backend = "idle"
  /\ ml_calls = 0
  /\ flagged_items = <<>>
  /\ privacy_findings = <<>>
  /\ suspicious_table = SUSPICIOUS_PATTERNS
  /\ privacy_table = PRIVACY_PATTERNS
  /\ stub \in FixedStubs
  /\ history = <<>>
  /\ calls = <<>>

\* A text is scored, then the text with one more urgency term in it, at its
\* start, at its end or between two of its words.
OneMoreNext ==
  \/ \E t \in UrgencyBases : CallScoring(t)
  \/ \E term \in urgency_terms : \E pos \in word_boundaries(text) :
          CallWithOneMore(term, pos)
  \/ AnalyzeScamRisk
  \/ ExtractFeatures
  \/ MlAnalysis
  \/ StubRespond
  \/ CalculateRiskScore
  \/ ClassifyThreat
  \/ Return

OneMoreSpec == OneMoreInit /\ [][OneMoreNext]_vars

\* An engine with a classifier of one fixed outcome.
ExampleInit ==
  /\ Detached
  /\ model = "loaded"
  /\ pc = "idle"
  /\ text = <<>>
  /\ features = <<>>
  /\ ml_analysis = <<>>
  /\ risk_score = 0
  /\ severity = ""
  /\ reasons = <<>>
  /\ result = <<>>
  /\ backend = "idle"
  /\ ml_calls = 0
  /\ flagged_items = <<>>
  /\ privacy_findings = <<>>
  /\ suspicious_table = SUSPICIOUS_PATTERNS
  /\ privacy_table = PRIVACY_PATTERNS
  /\ stub \in ExampleStubs
  /\ history = <<>>
  /\ calls = <<>>

\* One call of analyze_scam_risk on one of the two texts.
ExampleNext ==
  \/ \E t \in ExampleTexts : CallScoring(t)
  \/ AnalyzeScamRisk
  \/ ExtractFeatures
  \/ MlAnalysis
  \/ StubRespond
  \/ CalculateRiskScore
  \/ ClassifyThreat
  \/ Return

ExampleSpec == ExampleInit /\ [][ExampleNext]_vars

\* ----------------------------------------------------------- overlapping calls

\* The threads that call scam_classifier.analyze_scam_risk at the same time.
Threads == {1, 2}

\* The frame of a call that has not started. `overlapped` records that
\* another call was in progress at some time during this one.
idle_frame ==
  [pc |-> "idle", text |-> <<>>, features |-> <<>>, ml_analysis |-> <<>>,
   risk_score |-> 0, severity |-> "", reasons |-> <<>>, result |-> <<>>,
   overlapped |-> FALSE]

\* The threads that are inside analyze_scam_risk.
in_progress == {q \in Threads : calls[q].pc \notin {"idle", "done", "raised"}}

\* features, ml_analysis, risk_score, severity and reasons kept in attributes
\* of the one shared instance.
scratch_on_instance(p) == 1

\* Where the call of thread p keeps features, ml_analysis, risk_score,
\* severity and reasons: they are local variables, in the call's own frame.
scratch(p) == p

\* What no step of an overlapping call writes.
shared == <<model, pc, text, locals, result, backend, ml_calls, findings,
            tables, stub, history, outside>>

\* Thread p calls scam_classifier.analyze_scam_risk(t).
ThreadCall(p, t) ==
  /\ calls[p].pc = "idle"
  /\ calls' = [q \in Threads |->
                IF q = p
                THEN [calls[p] EXCEPT !.pc = "analyze", !.text = t,
                                      !.overlapped = in_progress # {}]
                ELSE [calls[q] EXCEPT !.overlapped = @ \/ q \in in_progress]]
  /\ UNCHANGED shared

\* if not text.strip(): return self._empty_result()
ThreadAnalyzeScamRisk(p) ==
  /\ calls[p].pc = "analyze"
  /\ calls' = IF is_blank(calls[p].text)
              THEN [calls EXCEPT ![p].result = _empty_result, ![p].pc = "done"]
              ELSE [calls EXCEPT ![p].pc = "extract"]
  /\ UNCHANGED shared

\* features = self._extract_features(text)
ThreadExtractFeatures(p) ==
  /\ calls[p].pc = "extract"
  /\ calls' = [calls EXCEPT ![scratch(p)].features = _extract_features(calls[p].text),
                            ![p].pc = "ml"]
  /\ UNCHANGED shared

\* ml_analysis = self._ml_analysis(text), up to the call of the model.
ThreadMlAnalysis(p) ==
  /\ calls[p].pc = "ml"
  /\ calls' = IF model = "None"
              THEN [calls EXCEPT ![scratch(p)].ml_analysis = ml_fallback,
                                 ![p].pc = "score"]
              ELSE [calls EXCEPT ![p].pc = "ml_wait"]
  /\ UNCHANGED shared

\* The model returns or raises for the text of thread p, and _ml_analysis
\* finishes.
ThreadBackendRespond(p) ==
  /\ calls[p].pc = "ml_wait"
  /\ LET r == ml_try(stub_outcome(stub, calls[p].text))
     IN calls' = IF r.raised
                 THEN [calls EXCEPT ![p].pc = "raised"]
                 ELSE [calls EXCEPT ![scratch(p)].ml_analysis = r.value,
                                    ![p].pc = "score"]
  /\ UNCHANGED shared

\* risk_score = self._calculate_risk_score(features, ml_analysis)
ThreadCalculateRiskScore(p) ==
  /\ calls[p].pc = "score"
  /\ LET mine == calls[scratch(p)]
     IN calls' = IF ScoredFeatures \subseteq DOMAIN mine.features
                 THEN [calls EXCEPT
                         ![scratch(p)].risk_score =
                            _calculate_risk_score(mine.features, mine.ml_analysis),
                         ![p].pc = "classify"]
                 ELSE [calls EXCEPT ![p].pc = "raised"]
  /\ UNCHANGED shared

\* severity, reasons = self._classify_threat(features, ml_analysis, risk_score)
ThreadClassifyThreat(p) ==
  /\ calls[p].pc = "classify"
  /\ LET mine == calls[scratch(p)]
         sr == _classify_threat(mine.features, mine.ml_analysis, mine.risk_score)
     IN calls' = [calls EXCEPT ![scratch(p)].severity = sr[1],
                               ![scratch(p)].reasons = sr[2],
                               ![p].pc = "return"]
  /\ UNCHANGED shared

\* return {...}
ThreadReturn(p) ==
  /\ calls[p].pc = "return"
  /\ LET mine == calls[scratch(p)]
     IN calls' = [calls EXCEPT
                    ![p].result = risk_result(mine.severity, mine.reasons,
                                              mine.risk_score, mine.ml_analysis,
                                              mine.features),
                    ![p].pc = "done"]
  /\ UNCHANGED shared

\* The one instance scam_classifier, with a deterministic classifier if it has
\* a model, and two threads that have not called yet.
OverlapInit ==
  /\ Detached
  /\ model \in {"None", "loaded"}
  /\ pc = "idle"
  /\ text = <<>>
  /\ features = <<>>
  /\ ml_analysis = <<>>
  /\ risk_score = 0
  /\ severity = ""
  /\ reasons = <<>>
  /\ result = <<>>
  /\ backend = "idle"
  /\ ml_calls = 0
  /\ flagged_items = <<>>
  /\ privacy_findings = <<>>
  /\ suspicious_table = SUSPICIOUS_PATTERNS
  /\ privacy_table = PRIVACY_PATTERNS
  /\ stub \in Stubs
  /\ history = <<>>
  /\ calls = [p \in Threads |-> idle_frame]

\* Each thread makes one call, and the steps of the two calls interleave in
\* any way.
OverlapNext ==
  \E p \in Threads :
    \/ \E t \in OverlapTexts : ThreadCall(p, t)
    \/ ThreadAnalyzeScamRisk(p)
    \/ ThreadExtractFeatures(p)
    \/ ThreadMlAnalysis(p)
    \/ ThreadBackendRespond(p)
    \/ ThreadCalculateRiskScore(p)
    \/ ThreadClassifyThreat(p)
    \/ ThreadReturn(p)

OverlapSpec == OverlapInit /\ [][OverlapNext]_vars

\* One call of analyze_scam_risk on a text with URLs.
UrlNext ==
  \/ \E t \in UrlTexts : CallScoring(t)
  \/ AnalyzeScamRisk
  \/ ExtractFeatures
  \/ MlAnalysis
  \/ StubRespond
  \/ CalculateRiskScore
  \/ ClassifyThreat
  \/ Return

UrlSpec == ExampleInit /\ [][UrlNext]_vars

\* The scanners about to run on a text, over a table with short_entry in it.
ShortInit ==
  /\ Detached
  /\ model = "None"
  /\ pc = "find"
  /\ text \in ShortTexts
  /\ features = <<>>
  /\ ml_analysis = <<>>
  /\ risk_score = 0
  /\ severity = ""
  /\ reasons = <<>>
  /\ result = <<>>
  /\ backend = "idle"
  /\ ml_calls = 0
  /\ flagged_items = <<>>
  /\ privacy_findings = <<>>
  /\ suspicious_table \in ShortTables
  /\ privacy_table = PRIVACY_PATTERNS
  /\ Unobserved

ShortSpec == ShortInit /\ [][ScanNext]_vars

\* "password" as a text may spell it.
PasswordSpellings ==
  { <<"p", "a", "s", "s", "w", "o", "r", "d">>,
    <<"P", "a", "s", "s", "w", "o", "r", "d">>,
    <<"P", "A", "S", "S", "W", "O", "R", "D">> }

\* Texts in which "password" occurs 3 times.
PasswordTexts ==
  {w1 \o sep \o w2 \o sep \o w3 :
     w1 \in PasswordSpellings, w2 \in PasswordSpellings,
     w3 \in PasswordSpellings, sep \in {<<" ">>, <<",", " ">>}}

\* The scanners about to run on one of PasswordTexts.
PasswordInit ==
  /\ Detached
  /\ model = "None"
  /\ pc = "find"
  /\ text \in PasswordTexts
  /\ features = <<>>
  /\ ml_analysis = <<>>
  /\ risk_score = 0
  /\ severity = ""
  /\ reasons = <<>>
  /\ result = <<>>
  /\ backend = "idle"
  /\ ml_calls = 0
  /\ flagged_items = <<>>
  /\ privacy_findings = <<>>
  /\ suspicious_table = SUSPICIOUS_PATTERNS
  /\ privacy_table = PRIVACY_PATTERNS
  /\ Unobserved

PasswordSpec == PasswordInit /\ [][ScanNext]_vars

\* ------------------------------------------------------------ the AI window

\* The scanners and the classifier, which the window's handlers do not touch.
engine == <<model, pc, text, locals, result, backend, ml_calls, findings,
            tables, stub, history, calls>>

\* No scan and no scoring call is in progress.
EngineIdle ==
  /\ model = "None"
  /\ pc = "idle"
  /\ text = <<>>
  /\ features = <<>>
  /\ ml_analysis = <<>>
  /\ risk_score = 0
  /\ severity = ""
  /\ reasons = <<>>
  /\ result = <<>>
  /\ backend = "idle"
  /\ ml_calls = 0
  /\ flagged_items = <<>>
  /\ privacy_findings = <<>>
  /\ suspicious_table = SUSPICIOUS_PATTERNS
  /\ privacy_table = PRIVACY_PATTERNS
  /\ Unobserved

\* What the user has typed into user_entry: nothing, blanks, or a question.
UserInputs == {"", " ", "Is this safe?"}

\* user_input = self.user_entry.get().strip() is empty.
is_empty_input(user_input) == user_input \in {"", " "}

\* What get_ai_response does in a worker thread: it returns an answer, it
\* returns one of its "Error: ..." strings, or it raises.
AiOutcomes == {"answer", "error", "raise"}

\* The message _run_ai_in_thread puts on the queue for an outcome.
response_summary(outcome) ==
  IF outcome = "answer" THEN "summary"
  ELSE IF outcome = "error" THEN "Error: AI response was empty."
  ELSE "Error: Could not get AI analysis."

\* on_ask from `if self.is_loading` on: a request under way is left alone,
\* otherwise is_loading is set and the worker thread is started.
start_request ==
  IF is_loading
  THEN UNCHANGED gui
  ELSE /\ is_loading' = TRUE
       /\ last_ai_summary' = ""
       /\ threads' = Append(threads, "running")
       /\ UNCHANGED <<response_queue, window_exists, ocr_ok>>

\* on_ask(event): with a string (the initial analysis) it returns if OCR
\* failed; with a key or button event it returns if the entry widget is gone
\* or holds no text.
on_ask(event, entry_exists, user_input) ==
  /\ window_exists
  /\ Len(threads) < MaxAsks
  /\ IF event = "initial"
     THEN IF ocr_ok THEN start_request ELSE UNCHANGED gui
     ELSE IF entry_exists /\ ~is_empty_input(user_input)
          THEN start_request
          ELSE UNCHANGED gui
  /\ UNCHANGED <<engine, request, logbook>>

\* on_smart_button_click(question): nothing while loading or without the
\* entry widget; otherwise the question goes into the entry and on_ask() runs.
on_smart_button_click(entry_exists) ==
  /\ window_exists
  /\ Len(threads) < MaxAsks
  /\ IF is_loading \/ ~entry_exists
     THEN UNCHANGED gui
     ELSE start_request
  /\ UNCHANGED <<engine, request, logbook>>

\* _run_ai_in_thread without the put in the except branch.
run_ai_put_unless_raised(w, outcome) ==
  /\ w \in DOMAIN threads
  /\ threads[w] = "running"
  /\ threads' = [threads EXCEPT ![w] = "put"]
  /\ response_queue' = IF outcome = "raise" THEN response_queue
                       ELSE Append(response_queue, response_summary(outcome))
  /\ UNCHANGED <<is_loading, last_ai_summary, window_exists, ocr_ok>>
  /\ UNCHANGED <<engine, request, logbook>>

\* _run_ai_in_thread in worker w up to the put: get_ai_response returns or
\* raises, and either way one message goes on the queue.
run_ai_put(w, outcome) ==
  /\ w \in DOMAIN threads
  /\ threads[w] = "running"
  /\ threads' = [threads EXCEPT ![w] = "put"]
  /\ response_queue' = Append(response_queue, response_summary(outcome))
  /\ UNCHANGED <<is_loading, last_ai_summary, window_exists, ocr_ok>>
  /\ UNCHANGED <<engine, request, logbook>>

\* _run_ai_in_thread in worker w after the put: the finally block, and the
\* thread ends.
run_ai_end(w) ==
  /\ w \in DOMAIN threads
  /\ threads[w] = "put"
  /\ threads' = [threads EXCEPT ![w] = "ended"]
  /\ UNCHANGED <<is_loading, response_queue, last_ai_summary, window_exists, ocr_ok>>
  /\ UNCHANGED <<engine, request, logbook>>

\* _run_ai_in_thread of some worker takes a step.
_run_ai_in_thread ==
  \E w \in 1..MaxAsks :
    \/ \E outcome \in AiOutcomes : run_ai_put(w, outcome)
    \/ run_ai_end(w)

\* _check_response_queue with is_loading cleared on every poll.
check_response_queue_clearing ==
  /\ window_exists
  /\ IF response_queue # <<>>
     THEN /\ last_ai_summary' = Head(response_queue)
          /\ response_queue' = Tail(response_queue)
     ELSE UNCHANGED <<response_queue, last_ai_summary>>
  /\ is_loading' = FALSE
  /\ UNCHANGED <<threads, window_exists, ocr_ok>>
  /\ UNCHANGED <<engine, request, logbook>>

\* _check_response_queue, run by the window's timer every 100 ms while the
\* window exists: get_nowait(), and _handle_ai_response for a message found.
_check_response_queue ==
  /\ window_exists
  /\ IF response_queue # <<>>
     THEN /\ last_ai_summary' = Head(response_queue)
          /\ is_loading' = FALSE
          /\ response_queue' = Tail(response_queue)
     ELSE UNCHANGED <<is_loading, response_queue, last_ai_summary>>
  /\ UNCHANGED <<threads, window_exists, ocr_ok>>
  /\ UNCHANGED <<engine, request, logbook>>

\* The user closes the window: no handler and no timer runs any more; worker
\* threads go on.
destroy ==
  /\ window_exists
  /\ window_exists' = FALSE
  /\ UNCHANGED <<is_loading, response_queue, last_ai_summary, threads, ocr_ok>>
  /\ UNCHANGED <<engine, request, logbook>>

\* PhishRxApp.__init__: the window is up, nothing is loading, the queue is
\* empty, and the poller is scheduled.
GuiInit ==
  /\ EngineIdle
  /\ NoRequest
  /\ NoLog
  /\ is_loading = FALSE
  /\ response_queue = <<>>
  /\ last_ai_summary = ""
  /\ threads = <<>>
  /\ window_exists = TRUE
  /\ ocr_ok \in BOOLEAN

GuiNext ==
  \/ \E event \in {"initial", "entry"}, entry_exists \in BOOLEAN,
        user_input \in UserInputs : on_ask(event, entry_exists, user_input)
  \/ \E entry_exists \in BOOLEAN : on_smart_button_click(entry_exists)
  \/ _run_ai_in_thread
  \/ _check_response_queue
  \/ destroy

GuiSpec == GuiInit /\ [][GuiNext]_vars

\* The worker threads are scheduled, and the window's timer fires as long as
\* the window exists.
FairGuiSpec ==
  GuiSpec /\ WF_vars(_run_ai_in_thread) /\ WF_vars(_check_response_queue)

\* ------------------------------------------------------- ai_handler.py

\* max_retries of get_ai_response.
max_retries == 3

\* What one requests.post can come to: a response with a status code and a
\* body, or a transport failure (a RequestException: no connection, timeout).
\* The bodies of a 200 response, by what the parsing finds in them: a text, a
\* blocked prompt, no candidates, a candidate finished for SAFETY, a candidate
\* without parts, a body that is not JSON, JSON that is not an object.
Bodies200 ==
  {"text", "blocked", "empty", "safety", "incomplete", "not_json", "not_object"}

Responses ==
  {[status_code |-> 200, body |-> b] : b \in Bodies200}
    \cup {[status_code |-> s, body |-> "any"] : s \in {204, 400, 404, 429, 500, 503}}
    \cup {[status_code |-> 0, body |-> "failed"]}

\* str(status_code) of a three-digit code.
digit(d) == <<"0", "1", "2", "3", "4", "5", "6", "7", "8", "9">>[d + 1]

str(n) == <<digit(n \div 100), digit((n \div 10) % 10), digit(n % 10)>>

\* str(e) of the RequestException of a transport failure.
e_str == <<"t", "i", "m", "e", "d", " ", "o", "u", "t">>

\* text.strip() of the text part of a good response.
reply == <<"T", "h", "i", "s", " ", "l", "o", "o", "k", "s", " ", "l", "i", "k", "e", " ", "p", "h", "i", "s", "h", "i", "n", "g", ".">>

\* What the parsing of a 200 response returns, for the bodies it can read.
parsed(body) ==
  CASE body = "blocked" -> <<"E", "r", "r", "o", "r", ":", " ", "T", "h", "e", " ", "a", "n", "a", "l", "y", "s", "i", "s", " ", "r", "e", "q", "u", "e", "s", "t", " ", "w", "a", "s", " ", "b", "l", "o", "c", "k", "e", "d", " ", "f", "o", "r", " ", "s", "a", "f", "e", "t", "y", " ", "r", "e", "a", "s", "o", "n", "s", ".">>
    [] body = "empty" -> <<"E", "r", "r", "o", "r", ":", " ", "A", "I", " ", "r", "e", "s", "p", "o", "n", "s", "e", " ", "w", "a", "s", " ", "e", "m", "p", "t", "y", ".">>
    [] body = "safety" -> <<"E", "r", "r", "o", "r", ":", " ", "T", "h", "e", " ", "A", "I", "'", "s", " ", "r", "e", "s", "p", "o", "n", "s", "e", " ", "w", "a", "s", " ", "b", "l", "o", "c", "k", "e", "d", " ", "f", "o", "r", " ", "s", "a", "f", "e", "t", "y", " ", "r", "e", "a", "s", "o", "n", "s", ".">>
    [] body = "incomplete" -> <<"E", "r", "r", "o", "r", ":", " ", "I", " ", "r", "e", "c", "e", "i", "v", "e", "d", " ", "a", "n", " ", "i", "n", "c", "o", "m", "p", "l", "e", "t", "e", " ", "r", "e", "s", "p", "o", "n", "s", "e", " ", "f", "r", "o", "m", " ", "t", "h", "e", " ", "A", "I", ".">>
    [] OTHER -> reply

\* get_ai_response is called: the prompt and the payload are built and the
\* loop is entered.
get_ai_response ==
  /\ ai_pc = "idle"
  /\ ai_pc' = "loop"
  /\ attempt' = 0
  /\ delay' = 1
  /\ sent' = <<>>
  /\ sleeps' = <<>>
  /\ returned' = <<>>
  /\ UNCHANGED <<engine, gui, logbook>>

\* return of get_ai_response with string s.
ai_return(s) ==
  /\ ai_pc' = "returned"
  /\ returned' = s
  /\ UNCHANGED <<attempt, delay, sleeps>>

\* time.sleep(delay); delay *= 2, and the next iteration; after the last
\* iteration the loop is left and the final return statement runs.
sleep_and_go_on ==
  /\ sleeps' = Append(sleeps, delay)
  /\ delay' = delay * 2
  /\ attempt' = attempt + 1
  /\ IF attempt + 1 < max_retries
     THEN UNCHANGED <<ai_pc, returned>>
     ELSE /\ ai_pc' = "returned"
          /\ returned' = <<"E", "r", "r", "o", "r", ":", " ", "T", "h", "e", " ", "A", "I", " ", "s", "e", "r", "v", "i", "c", "e", " ", "i", "s", " ", "c", "u", "r", "r", "e", "n", "t", "l", "y", " ", "u", "n", "a", "v", "a", "i", "l", "a", "b", "l", "e", " ", "a", "f", "t", "e", "r", " ", "m", "u", "l", "t", "i", "p", "l", "e", " ", "a", "t", "t", "e", "m", "p", "t", "s", ".">>

\* The except branch for requests.exceptions.RequestException.
request_exception ==
  IF attempt < max_retries - 1
  THEN /\ sleeps' = Append(sleeps, delay)
       /\ delay' = delay * 2
       /\ attempt' = attempt + 1
       /\ UNCHANGED <<ai_pc, returned>>
  ELSE ai_return(<<"E", "r", "r", "o", "r", ":", " ", "C", "o", "u", "l", "d", " ", "n", "o", "t", " ", "c", "o", "n", "n", "e", "c", "t", " ", "t", "o", " ", "t", "h", "e", " ", "A", "I", " ", "s", "e", "r", "v", "i", "c", "e", " ", "(">> \o e_str \o <<")", ".">>)

\* An exception that no except clause of get_ai_response catches.
ai_raise ==
  /\ ai_pc' = "raised"
  /\ UNCHANGED <<attempt, delay, sleeps, returned>>

\* One iteration of the loop: requests.post and what follows. response.json()
\* raises on a body that is not JSON: a JSONDecodeError that is a
\* RequestException in requests 2.27 and later, a plain ValueError before; and
\* response_json.get raises AttributeError when the JSON is not an object.
ai_attempt(response, json_error_is_request_exception) ==
  /\ ai_pc = "loop"
  /\ sent' = Append(sent, response)
  /\ IF response.body = "failed" THEN request_exception
     ELSE IF response.status_code = 200
     THEN IF response.body = "not_json"
          THEN IF json_error_is_request_exception
               THEN request_exception
               ELSE ai_raise
          ELSE IF response.body = "not_object"
          THEN ai_raise
          ELSE ai_return(parsed(response.body))
     ELSE IF 400 <= response.status_code /\ response.status_code < 500
     THEN ai_return(<<"E", "r", "r", "o", "r", ":", " ", "A", "P", "I", " ", "k", "e", "y", " ", "o", "r", " ", "r", "e", "q", "u", "e", "s", "t", " ", "i", "s", "s", "u", "e", " ", "(">> \o str(response.status_code) \o <<")", ".">>)
     ELSE sleep_and_go_on
  /\ UNCHANGED <<engine, gui, logbook>>

AiInit ==
  /\ EngineIdle
  /\ NoWindow
  /\ NoRequest
  /\ NoLog

AiNext ==
  \/ get_ai_response
  \/ \E response \in Responses, json_error_is_request_exception \in BOOLEAN :
       ai_attempt(response, json_error_is_request_exception)

AiSpec == AiInit /\ [][AiNext]_vars

\* ------------------------------------------------------- scan_logger.py

\* The header of the scan history file.
FIELDNAMES == <<"Timestamp", "Severity", "Reasons", "ImagePath", "OCRText">>

\* datetime.now().strftime("%Y-%m-%d %H:%M:%S") of the scans that are logged.
Timestamps == {"2025-03-01 10:00:00", "2025-03-01 10:00:07"}

\* The OCR texts of the scans that are logged.
OcrTexts == {"", "N/A", "Verify\nnow"}

\* The reason lists of the scans that are logged.
ReasonLists == {<<>>, <<"Urgency", "Login Request">>}

\* "|".join(reasons)
RECURSIVE join(_)
join(list) ==
  IF list = <<>> THEN ""
  ELSE IF Len(list) = 1 THEN list[1]
  ELSE list[1] \o "|" \o join(Tail(list))

\* ocr_text.replace('\n', '\\n') on the texts that are logged.
escape_newlines(ocr_text) ==
  IF ocr_text = "Verify\nnow" THEN "Verify\\nnow" ELSE ocr_text

\* The row save_scan_to_csv writes.
row(timestamp, sev, reason_list, image_path, ocr_text) ==
  [Timestamp |-> timestamp, Severity |-> sev, Reasons |-> join(reason_list),
   ImagePath |-> image_path, OCRText |-> escape_newlines(ocr_text)]

\* The strings pandas.read_csv takes for a missing value, dtype=str or not.
na_values ==
  {"", "#N/A", "#N/A N/A", "#NA", "-1.#IND", "-1.#QNAN", "-NaN", "-nan",
   "1.#IND", "1.#QNAN", "<NA>", "N/A", "NA", "NULL", "NaN", "None", "n/a",
   "nan", "null"}

\* A cell of the DataFrame: a string, or NaN for a missing value.
NaN == [isna |-> TRUE, value |-> ""]

cell(string) == [isna |-> FALSE, value |-> string]

\* pd.read_csv(SCAN_HISTORY_FILE, dtype=str): the records as a DataFrame.
read_csv(rows) ==
  [i \in DOMAIN rows |->
     [name \in DOMAIN rows[i] |->
        IF rows[i][name] \in na_values THEN NaN ELSE cell(rows[i][name])]]

\* df.to_csv(SCAN_HISTORY_FILE, index=False): the DataFrame as records, a
\* missing value written as the empty string.
to_csv(df) ==
  [i \in DOMAIN df |->
     [name \in DOMAIN df[i] |-> IF df[i][name].isna THEN "" ELSE df[i][name].value]]

\* df[df['Timestamp'] != timestamp_to_delete]
RECURSIVE filtered(_, _)
filtered(df, timestamp_to_delete) ==
  IF df = <<>> THEN <<>>
  ELSE IF df[1].Timestamp # cell(timestamp_to_delete)
  THEN <<df[1]>> \o filtered(Tail(df), timestamp_to_delete)
  ELSE filtered(Tail(df), timestamp_to_delete)

\* The records of `rows` whose Timestamp is not `timestamp`, in their order.
RECURSIVE without(_, _)
without(rows, timestamp) ==
  IF rows = <<>> THEN <<>>
  ELSE IF rows[1].Timestamp # timestamp
  THEN <<rows[1]>> \o without(Tail(rows), timestamp)
  ELSE without(Tail(rows), timestamp)

\* load_scan_history(): the records of the file, as csv.DictReader reads them.
load_scan_history == scan_history

\* save_scan_to_csv(...): the row is appended to the file.
save_scan_to_csv(timestamp, sev, reason_list, image_path, ocr_text) ==
  /\ Len(scan_history) < MaxRecords
  /\ scan_history' =
       Append(scan_history, row(timestamp, sev, reason_list, image_path, ocr_text))
  /\ recorded' =
       Append(recorded, row(timestamp, sev, reason_list, image_path, ocr_text))
  /\ UNCHANGED deleted
  /\ UNCHANGED <<engine, gui, request>>

\* delete_scan_history_item(timestamp_to_delete): False if no row of the
\* DataFrame has the timestamp; otherwise the rows that are left are written
\* back and True is returned.
delete_scan_history_item(timestamp_to_delete) ==
  /\ LET df == read_csv(scan_history)
         found == \E i \in DOMAIN df : df[i].Timestamp = cell(timestamp_to_delete)
     IN /\ scan_history' = IF found THEN to_csv(filtered(df, timestamp_to_delete))
                           ELSE scan_history
        /\ deleted' = [timestamp |-> timestamp_to_delete, returned |-> found,
                       present |-> \E i \in DOMAIN recorded :
                                     recorded[i].Timestamp = timestamp_to_delete]
  /\ recorded' = without(recorded, timestamp_to_delete)
  /\ UNCHANGED <<engine, gui, request>>

LogInit ==
  /\ EngineIdle
  /\ NoWindow
  /\ NoRequest
  /\ NoLog

LogNext ==
  \/ \E timestamp \in Timestamps, reason_list \in ReasonLists,
        ocr_text \in OcrTexts :
       save_scan_to_csv(timestamp, "Medium", reason_list, "shot.png", ocr_text)
  \/ \E timestamp_to_delete \in Timestamps :
       delete_scan_history_item(timestamp_to_delete)

LogSpec == LogInit /\ [][LogNext]_vars

\* ------------------------------------------------------------------ claims

Severities == {"critical", "high", "medium", "low"}

\* The call has returned.
Returned == pc = "done"

\* The call has computed its score.
Scored == pc \in {"classify", "return", "done"}

\* The call has classified the threat.
Classified == pc \in {"return", "done"}

\* weight * min(value / 3, 1) for a feature of value > 0, else 0, as a score:
\* weight is in hundredths and One is 300 * ConfSteps.
Contribution(weight, value) ==
  IF value > 0 THEN weight * ConfSteps * (IF value < 3 THEN value ELSE 3) ELSE 0

\* S + P + 0.60 * confidence of C3, as a score.
ExpectedScoreSum(f, confidence) ==
  Contribution(10, f.urgency_words) + Contribution(15, f.suspicious_urls)
  + Contribution(10, f.password_requests) + Contribution(5, f.financial_terms)
  + (IF f.has_popup_keywords = 1 THEN One \div 5 ELSE 0)
  + 180 * confidence

\* C1: for every input text and every classifier result, analyze_scam_risk
\* raises no exception and returns a risk score in [0,1] and a severity among
\* critical, high, medium, low.
C1_ScoreAndSeverityInRange ==
  /\ pc # "raised"
  /\ Returned =>
       /\ result.risk_score \in 0..One
       /\ result.confidence \in 0..One
       /\ result.severity \in Severities

\* C1 witness: a call returned a score that the final min(..., 1.0) saturated.
C1_Witness ==
  /\ Returned
  /\ result.risk_score = One
  /\ ExpectedScoreSum(features, ml_analysis.confidence) > One

\* Position of a severity in the order low < medium < high < critical.
SeverityRank(sev) ==
  CASE sev = "low" -> 0 [] sev = "medium" -> 1 [] sev = "high" -> 2
    [] sev = "critical" -> 3

\* C2: severity is critical if score >= 0.8 or the label is "phishing", else
\* high if score >= 0.6, else medium if score >= 0.4, else low; so "phishing"
\* gives critical whatever the score, and for any other label the severity is
\* the number of thresholds 0.4, 0.6, 0.8 the score has reached, which is
\* non-decreasing in the score.
C2_SeverityThresholds ==
  Classified =>
    /\ severity \in Severities
    /\ (severity = "critical") <=>
         (5 * risk_score >= 4 * One \/ ml_analysis.prediction = "phishing")
    /\ (severity = "high") <=>
         (5 * risk_score < 4 * One /\ ml_analysis.prediction # "phishing"
          /\ 5 * risk_score >= 3 * One)
    /\ (severity = "medium") <=>
         (5 * risk_score < 3 * One /\ ml_analysis.prediction # "phishing"
          /\ 5 * risk_score >= 2 * One)
    /\ ml_analysis.prediction # "phishing" =>
         SeverityRank(severity) =
           Cardinality({n \in {2, 3, 4} : 5 * risk_score >= n * One})

\* C2 witness: a "phishing" label with a score under 0.4 classified critical.
C2_Witness ==
  /\ Classified
  /\ ml_analysis.prediction = "phishing"
  /\ 5 * risk_score < 2 * One
  /\ severity = "critical"

\* C3: the risk score is min(1.0, S + P + 0.60 * confidence); generic_greetings,
\* length and entropy do not enter it.
C3_ScoreFormula ==
  Scored =>
    risk_score =
      (IF ExpectedScoreSum(features, ml_analysis.confidence) < One
       THEN ExpectedScoreSum(features, ml_analysis.confidence) ELSE One)

\* C3 witness: a score under 1.0 computed from a count above the cap of 3, with
\* a generic greeting, a length and an entropy that are not 0.
C3_Witness ==
  /\ Scored
  /\ features.urgency_words > 3
  /\ features.generic_greetings = 1
  /\ features.length > 0
  /\ features.entropy > 0
  /\ ml_analysis.confidence > 0
  /\ risk_score < One

\* Every tag, in the order of C4.
ReasonOrder ==
  <<"ml_detected_phishing", "ml_detected_urgent", "ml_detected_financial",
    "urgency_language", "suspicious_url", "password_request", "suspicious_popup">>

\* Whether C4 has the tag in the reasons for features f and label `label`.
ReasonDue(tag, f, label) ==
  CASE tag = "ml_detected_phishing" -> label = "phishing"
    [] tag = "ml_detected_urgent" -> label = "urgent"
    [] tag = "ml_detected_financial" -> label = "financial"
    [] tag = "urgency_language" -> f.urgency_words > 0
    [] tag = "suspicious_url" -> f.suspicious_urls > 0
    [] tag = "password_request" -> f.password_requests > 0
    [] tag = "suspicious_popup" -> f.has_popup_keywords = 1

\* C4: the reasons are exactly the due tags, each once, in the fixed order
\* ml_detected_<label>, urgency_language, suspicious_url, password_request,
\* suspicious_popup; the list may be empty.
C4_ReasonsOrder ==
  Classified =>
    reasons =
      SelectSeq(ReasonOrder,
                LAMBDA tag : ReasonDue(tag, features, ml_analysis.prediction))

\* C4 witness: all five kinds of tag are due and listed.
C4_Witness ==
  /\ Classified
  /\ Len(reasons) = 5
  /\ reasons[1] = "ml_detected_urgent"
  /\ reasons[5] = "suspicious_popup"

\* C5: _ml_analysis never raises; without a model it returns "fallback" with
\* confidence 0.0, when the tokenizer or the model raises it returns "error"
\* with confidence 0.0, and otherwise a label among safe, suspicious, phishing,
\* urgent, financial with a confidence in [0,1].
C5_AdapterNeverRaises ==
  /\ pc # "raised"
  /\ (pc \in {"score", "classify", "return", "done"} /\ ml_calls > 0) =>
       /\ model = "None" =>
            ml_analysis = [confidence |-> 0, prediction |-> "fallback"]
       /\ (model # "None" /\ backend = "raise") =>
            ml_analysis = [confidence |-> 0, prediction |-> "error"]
       /\ (model # "None" /\ backend = "ok") =>
            /\ ml_analysis.prediction \in
                 {"safe", "suspicious", "phishing", "urgent", "financial"}
            /\ ml_analysis.confidence \in 0..ConfSteps

\* C5 witness: the backend raised and the call went on to return a result.
C5_Witness ==
  /\ Returned
  /\ backend = "raise"
  /\ ml_analysis.prediction = "error"

\* C6: a scoring call that consults the classifier adapter eventually returns,
\* also when the classifier backend never responds.
C6_CallTerminates == (pc = "ml") ~> (pc \in {"done", "raised"})

\* The keys of a RiskAssessment.
AssessmentKeys == {"severity", "reasons", "risk_score", "confidence", "features"}

\* C7: with a degraded classifier result (label error or fallback, confidence
\* 0.0) the score is the heuristic feature sum alone, no ml_detected_* tag is
\* in the reasons, and the caller still gets a RiskAssessment with severity,
\* reasons, score, confidence and features.
C7_DegradedClassifier ==
  (Returned /\ ml_calls > 0 /\ ml_analysis.prediction \in {"error", "fallback"}) =>
    /\ ml_analysis.confidence = 0
    /\ AssessmentKeys \subseteq DOMAIN result
    /\ result.risk_score = ExpectedScoreSum(result.features, 0)
    /\ result.confidence = result.risk_score
    /\ DOMAIN result.features = FeatureNames
    /\ result.severity \in Severities
    /\ \A i \in DOMAIN result.reasons :
         result.reasons[i] \in
           {"urgency_language", "suspicious_url", "password_request",
            "suspicious_popup"}

\* C7 witness: the backend raised, and the result carries a score above 0 that
\* comes from the features.
C7_Witness ==
  /\ Returned
  /\ ml_calls > 0
  /\ ml_analysis.prediction = "error"
  /\ result.risk_score > 0
  /\ Len(result.reasons) > 0

\* C8: for the empty string the call returns score 0.0, severity low and an
\* empty reasons list without raising, and find_suspicious_text and
\* analyze_text_privacy both return an empty list.
C8_EmptyStringBoundary ==
  text = <<>> =>
    /\ pc # "raised"
    /\ flagged_items = <<>>
    /\ privacy_findings = <<>>
    /\ Returned =>
         /\ result.risk_score = 0
         /\ result.severity = "low"
         /\ result.reasons = <<>>

\* C8 witness: a call with the empty string has returned, after both scanners
\* ran on it.
C8_Witness ==
  /\ Returned
  /\ text = <<>>
  /\ ml_calls = 0
  /\ result.severity = "low"
  /\ flagged_items = <<>>
  /\ privacy_findings = <<>>
  /\ suspicious_table = SUSPICIOUS_PATTERNS
  /\ privacy_table = PRIVACY_PATTERNS

\* Text without any character that is not whitespace (the empty string too).
WhitespaceOnly(t) == \A i \in DOMAIN t : t[i] \in Whitespace

\* The call went through the full pipeline: features extracted from the text,
\* the classifier consulted once, score, severity and reasons computed from
\* the features and the classifier's result.
FullyAnalyzed ==
  /\ ml_calls = 1
  /\ DOMAIN features = FeatureNames
  /\ features.length = Len(text)
  /\ DOMAIN ml_analysis = {"confidence", "prediction"}
  /\ result.features = features
  /\ result.ml_confidence = ml_analysis.confidence
  /\ result.risk_score =
       Min(ExpectedScoreSum(features, ml_analysis.confidence), One)
  /\ result.reasons =
       SelectSeq(ReasonOrder,
                 LAMBDA tag : ReasonDue(tag, features, ml_analysis.prediction))

\* The call returned the empty result without extracting features or
\* consulting the classifier.
NotAnalyzed ==
  /\ ml_calls = 0
  /\ features = <<>>
  /\ ml_analysis = <<>>
  /\ result = [severity |-> "low", reasons |-> <<>>, confidence |-> 0,
               risk_score |-> 0, features |-> <<>>]

\* C9 as claimed: every non-empty input string, whitespace-only strings and
\* strings beginning with "Error:" included, is analyzed through the full
\* pipeline.
C9_EveryNonEmptyTextAnalyzed ==
  (Returned /\ text # <<>>) => FullyAnalyzed

\* C9 as amended: every input string with a character that is not whitespace,
\* strings beginning with "Error:" included, is analyzed through the full
\* pipeline; a whitespace-only string is treated like the empty string and
\* gets the empty result, with no feature extracted and no classifier call.
C9_NonBlankTextAnalyzed ==
  Returned =>
    IF WhitespaceOnly(text) THEN NotAnalyzed ELSE FullyAnalyzed

\* C9 witness: a text beginning with "Error:" went through the full pipeline.
C9_Witness ==
  /\ Returned
  /\ Len(text) >= 6
  /\ SubSeq(text, 1, 6) = <<"E", "r", "r", "o", "r", ":">>
  /\ FullyAnalyzed
  /\ result.features.suspicious_urls > 0

\* C10: for empty input the returned RiskAssessment carries a FeatureVector
\* that has every named feature, each with value 0 (length 0 and entropy 0
\* included).
C10_EmptyInputZeroFeatures ==
  (Returned /\ text = <<>>) =>
    /\ DOMAIN result.features = FeatureNames
    /\ \A name \in FeatureNames : result.features[name] = 0



\* find_suspicious_text has returned.
SuspiciousScanned == pc \in {"privacy", "scanned"}

\* Both scanners have returned.
Scanned == pc = "scanned"

\* Case-folded and trimmed.
Normalized(t) == lower(strip(t))

\* The entries of `table` whose pattern compiles.
Compiling(table) == {k \in DOMAIN table : compile_error(table[k]) = ""}

\* The normalized texts the k-th pattern of the suspicious table matches in
\* the text.
MatchedBy(k) ==
  LET matches == finditer(suspicious_table[k].pattern, text, 1, TRUE)
  IN {Normalized(matches[j]) : j \in DOMAIN matches}

\* C11: in the list find_suspicious_text returns, every normalized matched
\* text is in exactly one Finding, whose category is that of the first pattern
\* in table order that matches it.
C11_OneFindingPerNormalizedText ==
  SuspiciousScanned =>
    \A k \in Compiling(suspicious_table) :
      \A key \in MatchedBy(k) :
        LET first == CHOOSE f \in Compiling(suspicious_table) :
                       /\ key \in MatchedBy(f)
                       /\ \A g \in Compiling(suspicious_table) :
                            key \in MatchedBy(g) => f <= g
            found == {i \in DOMAIN flagged_items :
                        Normalized(flagged_items[i][1]) = key}
        IN /\ Cardinality(found) = 1
           /\ \A i \in found : flagged_items[i][2] = suspicious_table[first].label

\* C11 witness: two patterns of the table match the same normalized text, in
\* two letter cases, and the Finding has the category of the first of them.
C11_Witness ==
  /\ SuspiciousScanned
  /\ Len(suspicious_table) > Len(SUSPICIOUS_PATTERNS)
  /\ suspicious_table[1] = keyword_entry
  /\ \E i \in DOMAIN flagged_items :
       /\ flagged_items[i] = <<<<"P", "a", "s", "s", "w", "o", "r", "d">>, "Sensitive keyword">>
       /\ \E k \in DOMAIN suspicious_table :
            k > 1 /\ Normalized(flagged_items[i][1]) \in MatchedBy(k)
  /\ Cardinality({i \in DOMAIN flagged_items :
                    Normalized(flagged_items[i][1]) = <<"p", "a", "s", "s", "w", "o", "r", "d">>}) = 1


\* C12: the list analyze_text_privacy returns never holds two findings of the
\* same category whose texts are equal after case-folding and trimming.
C12_PrivacyUniqueNormalized ==
  Scanned =>
    \A i, j \in DOMAIN privacy_findings :
      (i # j /\ privacy_findings[i].type = privacy_findings[j].type) =>
        Normalized(privacy_findings[i].text) # Normalized(privacy_findings[j].text)

\* "verify your account"
VerifyPhrase == <<"v", "e", "r", "i", "f", "y", " ", "y", "o", "u", "r", " ", "a", "c", "c", "o", "u", "n", "t">>

\* How often `term` occurs in text t.
Occurrences(term, t) == Cardinality({i \in 1..Len(t) : starts_at(term, t, i)})

\* The texts the k-th pattern of the privacy table matches in the text,
\* trimmed.
PrivacyMatchedBy(k) ==
  LET matches == finditer(privacy_table[k].pattern, text, 1,
                          privacy_table[k].type = "SENSITIVE_KEYWORD")
  IN {strip(matches[j]) : j \in DOMAIN matches}

WithoutFailing(table) == SelectSeq(table, LAMBDA entry : compile_error(entry) = "")

\* C14: a pattern whose evaluation fails, whatever it raises, does not abort
\* either scan: each list is what the scan returns with the failing pattern
\* removed from the table.
C14_FailingPatternSkipped ==
  /\ pc # "raised"
  /\ SuspiciousScanned =>
       flagged_items =
         find_suspicious_text_over(WithoutFailing(suspicious_table), text).value
  /\ Scanned =>
       privacy_findings =
         analyze_text_privacy_over(WithoutFailing(privacy_table), text).value

\* Whether the texts of `matches` from the j-th on lie in t one after the
\* other, from position pos on, without overlap.
RECURSIVE LeftToRight(_, _, _, _)
LeftToRight(matches, j, t, pos) ==
  \/ j > Len(matches)
  \/ \E p \in pos..Len(t) :
       /\ starts_at(matches[j], t, p)
       /\ LeftToRight(matches, j + 1, t, p + Len(matches[j]))

\* Whether `kept` is `raw` without the elements whose key came before, in the
\* order of raw: each kept element is the first of raw with its key.
FirstOccurrences(kept, raw, Key(_)) ==
  LET first(i) == CHOOSE r \in DOMAIN raw :
                    /\ Key(raw[r]) = Key(kept[i])
                    /\ \A q \in DOMAIN raw : Key(raw[q]) = Key(kept[i]) => r <= q
  IN /\ \A i \in DOMAIN kept :
          /\ \E r \in DOMAIN raw : Key(raw[r]) = Key(kept[i])
          /\ kept[i] = raw[first(i)]
     /\ \A i, j \in DOMAIN kept : i < j => first(i) < first(j)
     /\ \A r \in DOMAIN raw : \E i \in DOMAIN kept : Key(raw[r]) = Key(kept[i])

\* The matches of every compiling pattern of the suspicious table, in table
\* order: (trimmed text, label).
SuspiciousEncounters ==
  flatten([k \in DOMAIN suspicious_table |->
             IF compile_error(suspicious_table[k]) # "" THEN <<>>
             ELSE LET matches == finditer(suspicious_table[k].pattern, text, 1, TRUE)
                  IN [j \in DOMAIN matches |->
                        <<strip(matches[j]), suspicious_table[k].label>>]])

\* The matches of every compiling pattern of the privacy table, in table
\* order.
PrivacyEncounters ==
  flatten([k \in DOMAIN privacy_table |->
             IF compile_error(privacy_table[k]) # "" THEN <<>>
             ELSE LET matches == finditer(privacy_table[k].pattern, text, 1,
                                          privacy_table[k].type = "SENSITIVE_KEYWORD")
                  IN [j \in DOMAIN matches |->
                        [type |-> privacy_table[k].type, text |-> strip(matches[j])]]])

\* C15: both lists are in encounter order: patterns in table order, the
\* matches of a pattern from left to right in the text, and of the findings
\* with one key the first encountered is kept, in its place.
C15_EncounterOrder ==
  /\ SuspiciousScanned =>
       /\ FirstOccurrences(flagged_items, SuspiciousEncounters,
                           LAMBDA finding : lower(finding[1]))
       /\ \A k \in Compiling(suspicious_table) :
            LeftToRight(finditer(suspicious_table[k].pattern, text, 1, TRUE), 1, text, 1)
  /\ Scanned =>
       /\ FirstOccurrences(privacy_findings, PrivacyEncounters,
                           LAMBDA finding : finding)
       /\ \A k \in Compiling(privacy_table) :
            LeftToRight(finditer(privacy_table[k].pattern, text, 1,
                                 privacy_table[k].type = "SENSITIVE_KEYWORD"),
                        1, text, 1)

\* C15 witness: the first Finding is a URL that stands after the other matches
\* in the text, and a word met in two letter cases is kept as met first.
C15_Witness ==
  /\ Scanned
  /\ Len(flagged_items) >= 3
  /\ flagged_items[1][2] = "Contains URL"
  /\ \E i \in DOMAIN flagged_items : flagged_items[i][1] = <<"U", "R", "G", "E", "N", "T">>
  /\ Len(SuspiciousEncounters) > Len(flagged_items)


EarlierText == CHOOSE u \in DOMAIN history : TRUE

\* The text with the term added has been scored too.
BothScored == Returned /\ history # <<>>

\* C17 as stated: for a fixed classifier output, the text with one more
\* occurrence of an urgency term, at its start, at its end or between two of
\* its words, has a risk score not below that of the text without it.
C17_OneMoreNeverLower ==
  BothScored => result.risk_score >= history[EarlierText].risk_score

\* The term was put at the start or at the end of the text.
AddedAtAnEnd ==
  \E term \in urgency_terms :
    text = term \o EarlierText \/ text = EarlierText \o term

\* C17 amended: for a fixed classifier output, the text with one more
\* occurrence of an urgency term at its start or at its end has a risk score
\* not below that of the text without it.
C17_OneMoreAtAnEndNeverLower ==
  (BothScored /\ AddedAtAnEnd) =>
    result.risk_score >= history[EarlierText].risk_score

\* C17 witness: a term the text already had is appended to a text with a
\* score above 0, and the score is the same.
C17_Witness ==
  /\ BothScored
  /\ AddedAtAnEnd
  /\ history[EarlierText].risk_score > 0
  /\ result.features.urgency_words = history[EarlierText].features.urgency_words
  /\ result.risk_score = history[EarlierText].risk_score


\* The tags of the returned reasons.
ReturnedReasons == {result.reasons[i] : i \in DOMAIN result.reasons}

\* C18: with a backend that always fails, "URGENT! Verify your password now:
\* http://bit.ly/x" gets a severity of at least medium, the urgency, URL and
\* password tags, and no ml_detected_* tag.
C18_HeuristicsAloneAtLeastMedium ==
  (Returned /\ text = UrgentExample /\ backend = "raise") =>
    /\ ml_analysis.confidence = 0
    /\ result.severity \in {"medium", "high", "critical"}
    /\ {"urgency_language", "suspicious_url", "password_request"}
         \subseteq ReturnedReasons
    /\ \A label \in {"phishing", "urgent", "financial"} :
         ("ml_detected_" \o label) \notin ReturnedReasons

\* C19: with a classifier that returns phishing with confidence 0.9, "Dear
\* user, your account is suspended. Click here to verify:
\* http://verify-account.com" gets severity critical, the tags
\* ml_detected_phishing, suspicious_url and password_request, no urgency tag,
\* and a score of at least 0.8.
C19_PhishingExample ==
  (/\ Returned
   /\ text = SuspendedExample
   /\ backend = "ok"
   /\ ml_analysis.prediction = "phishing"
   /\ ml_analysis.confidence * 10 = 9 * ConfSteps) =>
    /\ result.severity = "critical"
    /\ {"ml_detected_phishing", "suspicious_url", "password_request"}
         \subseteq ReturnedReasons
    /\ "urgency_language" \notin ReturnedReasons
    /\ result.risk_score >= Hundredths(80)


\* What analyze_scam_risk(t) returns when the call runs alone on this engine.
AssessmentAlone(t) ==
  IF is_blank(t) THEN _empty_result
  ELSE LET feats == _extract_features(t)
           ml == IF model = "None" THEN ml_fallback
                 ELSE ml_try(stub_outcome(stub, t)).value
           score == _calculate_risk_score(feats, ml)
       IN risk_result(threat_severity(ml, score), threat_reasons(feats, ml),
                      score, ml, feats)

\* C20: under every interleaving of two overlapping analyze_scam_risk calls
\* on the shared instance, no call raises, each call returns the result it
\* returns when run alone, what a call has returned is not changed by the
\* other call, and no step writes the instance.
C20_OverlappingCallsIndependent ==
  /\ [](\A p \in DOMAIN calls : calls[p].pc # "raised")
  /\ [][\A p \in DOMAIN calls :
          IF calls[p].pc = "done"
          THEN calls'[p].pc = "done" /\ calls'[p].result = calls[p].result
          ELSE calls'[p].pc = "done" =>
                 calls'[p].result = AssessmentAlone(calls'[p].text)]_vars
  /\ [][model' = model /\ stub' = stub /\ tables' = tables]_vars

\* C20 witness: two calls that overlapped have both returned, on different
\* texts, with different results.
C20_Witness ==
  /\ calls # <<>>
  /\ \A p \in Threads : calls[p].pc = "done" /\ calls[p].overlapped
  /\ calls[1].text # calls[2].text
  /\ calls[1].result # calls[2].result
  /\ calls[1].result.risk_score > 0
  /\ calls[2].result.risk_score > 0


\* _extract_features has returned in the current call.
Extracted == pc \in {"ml", "ml_wait", "score", "classify", "return"}

\* The dict fv has every named feature and nothing else, the four indicators
\* are 0 or 1, the two counts and the entropy are not negative, and length is
\* the number of characters of t.
WellFormedFeatures(fv, t) ==
  /\ DOMAIN fv = FeatureNames
  /\ \A name \in {"password_requests", "financial_terms", "generic_greetings",
                   "has_popup_keywords"} : fv[name] \in {0, 1}
  /\ fv.urgency_words \in Nat
  /\ fv.suspicious_urls \in Nat
  /\ fv.entropy \in Nat
  /\ fv.length = Len(t)

HostOf(url) ==
  LET first == scheme_len(url, 1) + 1
      stops == {p \in first..Len(url) : url[p] \in {"/", "?", "#"}}
      stop == IF stops = {} THEN Len(url) + 1
              ELSE CHOOSE p \in stops : \A q \in stops : p <= q
  IN SubSeq(url, first, stop - 1)

\* The number of scheme://... tokens of t whose host has a denylist name.
SuspiciousHosts(t) ==
  LET urls == findall_urls(lower(t), 1)
  IN Cardinality({k \in DOMAIN urls :
                    \E domain \in suspicious_domains :
                      contains(domain, HostOf(urls[k]))})

\* C22: suspicious_urls is the number of extracted scheme://... tokens whose
\* host contains a denylist name; a token with a clean host is not counted
\* whatever its path or query holds, and no token is counted twice.
C22_SuspiciousUrlsByHost ==
  (Returned /\ ~is_blank(text)) =>
    result.features.suspicious_urls = SuspiciousHosts(text)


\* C23 as stated: a call on text that is not the empty string has invoked the
\* classifier exactly once when it returns.
C23_NonEmptyTextOneClassifierCall ==
  (Returned /\ text # <<>>) => ml_calls = 1

\* C23 amended: a call on text that is not blank invokes the classifier
\* exactly once and the backend at most once; when the backend raises, the
\* call goes straight on to scoring with the degraded result; and the one
\* classifier result, unchanged from scoring to return, gives the score, the
\* severity, the reasons and the ml_confidence.
C23_OneClassifierCallNoRetry ==
  /\ [](ml_calls <= 1)
  /\ []((Returned /\ ~is_blank(text)) =>
          /\ ml_calls = 1
          /\ result.risk_score = _calculate_risk_score(features, ml_analysis)
          /\ <<result.severity, result.reasons>>
               = _classify_threat(features, ml_analysis, result.risk_score)
          /\ result.ml_confidence = ml_analysis.confidence)
  /\ [][backend' = "running" => (backend = "idle" /\ ml_calls = 0)]_vars
  /\ [][(backend = "running" /\ backend' = "raise") =>
          (pc' = "score" /\ ml_analysis' = [confidence |-> 0, prediction |-> "error"])]_vars
  /\ [][(pc \in {"score", "classify", "return"}) => ml_analysis' = ml_analysis]_vars

\* C23 witness: the backend raised once and the call returned the degraded
\* result with a score from the features.
C23_Witness ==
  /\ Returned
  /\ ~is_blank(text)
  /\ ml_calls = 1
  /\ backend = "raise"
  /\ result.ml_confidence = 0
  /\ result.risk_score > 0
  /\ result.reasons # <<>>


\* The normalized texts of the Findings find_suspicious_text returned.
RetainedKeys == {Normalized(flagged_items[i][1]) : i \in DOMAIN flagged_items}

\* The normalized texts of all matches of all patterns of the table.
MatchedKeys == UNION {MatchedBy(k) : k \in Compiling(suspicious_table)}

\* C24: every Finding find_suspicious_text retains has a normalized text
\* longer than 2; a match whose normalized text has 2 characters or fewer is
\* dropped, and every match with a longer one is retained, also when shorter
\* matches came before it.
C24_ShortMatchesDropped ==
  SuspiciousScanned =>
    /\ \A key \in RetainedKeys : Len(key) > 2
    /\ RetainedKeys = {key \in MatchedKeys : Len(key) > 2}

\* C24 witness: the first match in encounter order has two letters and
\* whitespace after it, it is not among the Findings, and matches after it
\* are.
C24_Witness ==
  /\ SuspiciousScanned
  /\ suspicious_table[1] = short_entry
  /\ \E key \in MatchedBy(1) : Len(key) = 2
  /\ \E key \in MatchedBy(1) : Len(key) = 3 /\ key \in RetainedKeys
  /\ Len(flagged_items) >= 2


\* The worker threads that have not ended.
LiveThreads == {w \in DOMAIN threads : threads[w] # "ended"}

\* The worker threads whose get_ai_response has not come back.
RunningThreads == {w \in DOMAIN threads : threads[w] = "running"}

\* C25 as stated: the number of live worker threads plus the number of queued
\* responses not yet handled is at most 1.
C25_LiveThreadsPlusQueuedAtMostOne ==
  Cardinality(LiveThreads) + Len(response_queue) <= 1

\* C25 amended: the number of worker threads that have not yet put their
\* response plus the number of queued responses is at most 1, and is 0 when
\* is_loading is false; a worker starts only when is_loading is false, and
\* is_loading is set with it; is_loading goes back to false only as a response
\* leaves the queue.
C25_OneRequestInFlight ==
  /\ [](Cardinality(RunningThreads) + Len(response_queue)
          = IF is_loading THEN 1 ELSE 0)
  /\ [][Len(threads') > Len(threads) => (~is_loading /\ is_loading')]_vars
  /\ [][(is_loading /\ ~is_loading')
          => (response_queue # <<>> /\ response_queue' = Tail(response_queue))]_vars

\* C25 witness: a second request is under way after the first was answered,
\* and asks made meanwhile were ignored.
C25_Witness ==
  /\ is_loading
  /\ Len(threads) = 2
  /\ threads[1] = "ended"
  /\ threads[2] = "running"
  /\ last_ai_summary = ""
  /\ response_queue = <<>>


\* Some worker thread puts its message in this step.
SomeWorkerPuts ==
  \E w \in DOMAIN threads : threads[w] = "running" /\ threads'[w] = "put"

\* C26: every request that was started is eventually answered. A worker's
\* step out of get_ai_response, returned or raised, adds exactly one message
\* to response_queue and nothing else ever adds one; and, with the workers
\* scheduled and the poller running, a window that is loading eventually
\* stops loading unless it is closed first.
C26_EveryRequestAnswered ==
  /\ [][SomeWorkerPuts <=> Len(response_queue') = Len(response_queue) + 1]_vars
  /\ [][Len(response_queue') <= Len(response_queue) + 1]_vars
  /\ (is_loading ~> (~is_loading \/ ~window_exists))

\* C26 witness: a request whose get_ai_response raised has been answered
\* with the error message and the window is no longer loading.
C26_Witness ==
  /\ window_exists
  /\ ~is_loading
  /\ threads = <<"ended">>
  /\ last_ai_summary = "Error: Could not get AI analysis."
  /\ response_queue = <<>>


\* s begins with "Error:".
BeginsWithError(s) ==
  Len(s) >= 6 /\ SubSeq(s, 1, 6) = <<"E", "r", "r", "o", "r", ":">>

\* The response to the last request posted.
LastSent == sent[Len(sent)]

\* C27: get_ai_response posts at most 3 requests and no exception leaves
\* it; once a response with status 200 or 4xx has come the call has returned
\* a string; the sleeps between attempts double from 1 second; and after a
\* third failed attempt the call has returned a string beginning with
\* "Error:".
C27_AtMostThreeRequestsThenAString ==
  /\ Len(sent) <= 3
  /\ ai_pc # "raised"
  /\ \A i \in DOMAIN sleeps : sleeps[i] = 2 ^ (i - 1)
  /\ (sent # <<>> /\ (LastSent.status_code = 200
                        \/ LastSent.status_code \in 400..499))
       => ai_pc = "returned"
  /\ (Len(sent) = 3 /\ LastSent.status_code \notin {200} \cup (400..499))
       => (ai_pc = "returned" /\ BeginsWithError(returned))


\* The classifier result is degraded: confidence 0.0 and a label that is not
\* "phishing".
Degraded == ml_analysis.confidence = 0 /\ ml_analysis.prediction # "phishing"

\* C28: with a degraded classifier result the score is at most 0.5 and the
\* severity is neither high nor critical; without a popup keyword the score is
\* at most 0.3 and the severity is low, whatever the counts and indicators.
C28_DegradedScoreBounded ==
  (Classified /\ Degraded) =>
    /\ 2 * risk_score <= One
    /\ severity \in {"low", "medium"}
    /\ features.has_popup_keywords = 0 =>
         (10 * risk_score <= 3 * One /\ severity = "low")

\* C28 witness: a degraded result with every count above the cap, both
\* indicators and a popup keyword: the score is exactly 0.5 and the severity
\* medium.
C28_Witness ==
  /\ Classified
  /\ Degraded
  /\ features.urgency_words > 3
  /\ features.suspicious_urls > 3
  /\ features.password_requests = 1
  /\ features.financial_terms = 1
  /\ features.has_popup_keywords = 1
  /\ 2 * risk_score = One
  /\ severity = "medium"


\* C29: delete_scan_history_item removes the records with the timestamp and
\* returns true, the other records staying as they were and in their order,
\* and returns false without a change when no record has the timestamp; so
\* after any saves and deletes the history is exactly the saved records whose
\* timestamp was not deleted after they were saved.
C29_HistoryIsSavedMinusDeleted ==
  /\ load_scan_history = recorded
  /\ deleted.returned = deleted.present


\* "password"
PasswordTerm == <<"p", "a", "s", "s", "w", "o", "r", "d">>

\* The findings of analyze_text_privacy for "password", in any spelling.
PasswordFindings ==
  {i \in DOMAIN privacy_findings :
     /\ privacy_findings[i].type = "SENSITIVE_KEYWORD"
     /\ lower(privacy_findings[i].text) = PasswordTerm}

\* C30: analyze_text_privacy does not remove duplicates: a text in which
\* "password" occurs 3 times yields 3 findings for it.
C30_ThreeOccurrencesThreeFindings ==
  (Scanned /\ Occurrences(PasswordTerm, lower(text)) = 3) =>
    Cardinality(PasswordFindings) = 3

=============================================================================
